---- MODULE Spec2Model ----
(***************************************************************************)
(* A model of the gesture layer of WAMS: the Pinch recogniser              *)
(* (src/src/gestures/gestures/Pinch.js) and the Interactor's refinement of *)
(* the Rotate recogniser (src/unnamed/part_000).                           *)
(*                                                                         *)
(* JavaScript numbers are modelled as exact rationals extended with the    *)
(* two values Infinity and NaN that a division can produce; rounding of    *)
(* IEEE doubles is not modelled.  Contact positions are drawn from a small *)
(* lattice with steps 4 and 3, and only those States are enumerated whose  *)
(* centroid distances are rational, so that every distance is exact.       *)
(***************************************************************************)
EXTENDS Integers, Sequences, FiniteSets

VARIABLES
  options,   \* per Pinch instance: the options.minInputs its constructor was given
  pinch,     \* per Pinch instance: its fields minInputs and previous
  call,      \* the latest hook call: hook, callee, arguments, return value
  run,       \* the changes emitted by the current run of recognized moves
  rotate,    \* the memory of the Rotate instance built by Interactor.rotater
  rotateCall, \* the latest call of that instance's move
  shadow,    \* a newly constructed Pinch given the calls that follow a cancel
  baseline,  \* the state of the latest hook call with enough contacts
  active,    \* State.active of one Region: its live Inputs in the order they began
  bindings,  \* the Region's Bindings in dispatch order
  released,  \* the handles unbind has been called on
  event,     \* the latest raw event or unbind call the Region received
  trace,     \* the hooks and callbacks the Region invoked for that event
  events,    \* how many events and unbind calls the Region has received
  rotateCalls, \* the calls of handlers.rotate made for the latest Rotate move
  tap,       \* the contact a Tap follows, and the Tap's latest result
  tapCalls,  \* the calls of handlers.tap made for the latest end
  pan,       \* one Pan
  panRun,    \* the latest call of a hook of that Pan, and its run of moves
  panCalls,  \* the calls of handlers.pan made for the latest move
  anInput,   \* one Input
  inputTrail, \* the position and phase that Input was constructed and updated with
  array,     \* an array of objects with ids
  utilCall,  \* the latest call of removeById or safeRemoveById on it
  initCall,  \* the latest call of getInitialValues
  prop,      \* the own property id of one object
  stamped,   \* whether an id has been stamped on the object, and which
  propCall,  \* the latest operation on the property
  view,      \* one ServerViewSpace: position, size, scale, effective size
  viewCall,  \* the latest call on the ServerViewSpace
  interactor,  \* one Interactor: its handlers and the Bindings of its Region
  handlerCall, \* the handler calls made for the latest gesture event
  viewer,      \* one ClientViewer
  viewerCall,  \* the latest event handled by the ClientViewer
  timers       \* the interval timers of the window

regionVars == <<active, bindings, released, event, trace, events>>

handlerVars == <<tap, tapCalls, pan, panRun, panCalls>>

unitVars ==
  <<anInput, inputTrail, array, utilCall, initCall, prop, stamped, propCall, view, viewCall,
    interactor, handlerCall, viewer, viewerCall, timers>>

vars ==
  <<options, pinch, call, run, rotate, rotateCall, shadow, baseline, regionVars,
    rotateCalls, handlerVars, unitVars>>

\* ------------------------------------------------------------------ bounds

\* Lattice points are numbered 0..MaxPoint.
MaxPoint == 2

\* A State holds at most MaxContacts active inputs.
MaxContacts == 3

\* Configured minInputs values range over -MaxNegative..MaxContacts.
MaxNegative == 1

\* The length of a run of recognized moves is counted up to MaxRun.
MaxRun == 3

\* Rotate is given angles of 0..MaxTurn eighths of a turn.
MaxTurn == 7

\* --------------------------------------------------------- JavaScript numbers

RECURSIVE Gcd(_, _)
Gcd(a, b) == IF b = 0 THEN a ELSE Gcd(b, a % b)

Abs(a) == IF a < 0 THEN 0 - a ELSE a

\* The finite number n/d (d > 0), in lowest terms.
Fin(n, d) ==
  LET g == Gcd(Abs(n), d)
  IN  [k |-> "fin", n |-> n \div g, d |-> d \div g]

Infinity == [k |-> "inf", n |-> 1, d |-> 0]

NaN == [k |-> "nan", n |-> 0, d |-> 0]

Zero == Fin(0, 1)

One == Fin(1, 1)

IsFinite(a) == a.k = "fin"

IsNonZero(a) == a.k = "fin" /\ a.n # 0

\* JavaScript's a / b for non-negative operands.
Div(a, b) ==
  IF a.k = "nan" \/ b.k = "nan" THEN NaN
  ELSE IF a.k = "inf" THEN (IF b.k = "inf" THEN NaN ELSE Infinity)
  ELSE IF b.k = "inf" THEN Zero
  ELSE IF b.n = 0 THEN (IF a.n = 0 THEN NaN ELSE Infinity)
  ELSE Fin(a.n * b.d, a.d * b.n)

\* JavaScript's a * b for non-negative operands.
Mul(a, b) ==
  IF a.k = "nan" \/ b.k = "nan" THEN NaN
  ELSE IF a.k = "inf" THEN (IF b.k = "fin" /\ b.n = 0 THEN NaN ELSE Infinity)
  ELSE IF b.k = "inf" THEN (IF a.n = 0 THEN NaN ELSE Infinity)
  ELSE Fin(a.n * b.n, a.d * b.d)

\* ------------------------------------------------------------------ geometry

\* The k-th lattice point, as <<x, y>>.
Point(k) == <<4 * ((k + 1) \div 2), 3 * (k % 2)>>

RECURSIVE SumX(_)
SumX(pts) == IF pts = <<>> THEN 0 ELSE pts[1][1] + SumX(Tail(pts))

RECURSIVE SumY(_)
SumY(pts) == IF pts = <<>> THEN 0 ELSE pts[1][2] + SumY(Tail(pts))

\* The square of Len(pts) times the distance from the centroid of pts to p.
ScaledSquare(pts, p) ==
  LET n == Len(pts)
      dx == n * p[1] - SumX(pts)
      dy == n * p[2] - SumY(pts)
  IN  dx * dx + dy * dy

MaxRoot == 8 * (MaxPoint + 1) * (MaxContacts + 1)

IsSquare(q) == \E r \in 0..MaxRoot : r * r = q

Sqrt(q) == CHOOSE r \in 0..MaxRoot : r * r = q

\* State.activePoints: the current positions of the active inputs.
activePoints(state) == [i \in 1..Len(state) |-> Point(state[i])]

\* State.centroid: the arithmetic mean of the active points (non-empty).
centroid(state) ==
  LET pts == activePoints(state)
  IN  <<Fin(SumX(pts), Len(pts)), Fin(SumY(pts), Len(pts))>>

RECURSIVE SumRoots(_, _)
SumRoots(pts, i) ==
  IF i = 0 THEN 0 ELSE Sqrt(ScaledSquare(pts, pts[i])) + SumRoots(pts, i - 1)

\* Point2D.averageDistanceTo, from the centroid of pts to pts (non-empty).
averageDistanceTo(pts) == Fin(SumRoots(pts, Len(pts)), Len(pts) * Len(pts))

\* The active lists enumerated, each the point numbers of its inputs: in
\* non-decreasing order (the geometry does not depend on the order), and
\* with every centroid distance rational.
RECURSIVE SortedSeqs(_)
SortedSeqs(n) ==
  IF n = 0 THEN {<<>>}
  ELSE UNION {{Append(s, k) : k \in (IF s = <<>> THEN 0 ELSE s[Len(s)])..MaxPoint} :
              s \in SortedSeqs(n - 1)}

Exact(s) ==
  LET pts == [i \in 1..Len(s) |-> Point(s[i])]
  IN  \A i \in 1..Len(s) : IsSquare(ScaledSquare(pts, pts[i]))

States == UNION {{s \in SortedSeqs(n) : Exact(s)} : n \in 0..MaxContacts}

\* What state.centroid.averageDistanceTo(state.activePoints) can evaluate to.
\* For an empty active list the centroid is undefined: the call throws, or
\* the mean of no distances is NaN.
Throws == [k |-> "throw", n |-> 0, d |-> 0]

DistanceOutcomes ==
  [s \in States |->
     IF Len(s) = 0 THEN {Throws, NaN} ELSE {averageDistanceTo(activePoints(s))}]

Midpoint ==
  [s \in States |-> IF Len(s) = 0 THEN <<NaN, NaN>> ELSE centroid(s)]

\* --------------------------------------------------------------------- Pinch

DEFAULT_MIN_INPUTS == 2

\* options.minInputs: absent (undefined) or a number.
Undefined == [given |-> FALSE, v |-> 0]

Given(v) == [given |-> TRUE, v |-> v]

OptionValues == {Undefined} \cup {Given(v) : v \in (0 - MaxNegative)..MaxContacts}

\* JavaScript's a || b on an optional number: undefined and 0 are falsy.
OrDefault(opt, default) == IF opt.given /\ opt.v # 0 THEN opt.v ELSE default

\* new Pinch(options): the constructor has no throw statement.
Pinch(opt) ==
  [threw |-> FALSE,
   minInputs |-> OrDefault(opt, DEFAULT_MIN_INPUTS),
   previous |-> Zero]

\* The values a hook call yields.
NoValue == [kind |-> "undefined", distance |-> NaN, midpoint |-> <<NaN, NaN>>, change |-> NaN]

Null == [kind |-> "null", distance |-> NaN, midpoint |-> <<NaN, NaN>>, change |-> NaN]

Thrown == [kind |-> "throw", distance |-> NaN, midpoint |-> <<NaN, NaN>>, change |-> NaN]

Data(distance, midpoint, change) ==
  [kind |-> "data", distance |-> distance, midpoint |-> midpoint, change |-> change]

\* refresh storing 0 instead of the distance it computed.
refreshToZero(self, state, distance) ==
  IF Len(state) >= self.minInputs
    THEN IF distance = Throws
           THEN [self |-> self, state |-> state, ret |-> Thrown]
           ELSE [self |-> [self EXCEPT !.previous = Zero],
                 state |-> state, ret |-> NoValue]
    ELSE [self |-> self, state |-> state, ret |-> NoValue]

\* refresh resetting the stored distance when the contacts are too few.
refreshResets(self, state, distance) ==
  IF Len(state) >= self.minInputs
    THEN IF distance = Throws
           THEN [self |-> self, state |-> state, ret |-> Thrown]
           ELSE [self |-> [self EXCEPT !.previous = distance],
                 state |-> state, ret |-> NoValue]
    ELSE [self |-> [self EXCEPT !.previous = Zero], state |-> state, ret |-> NoValue]

\* Pinch.refresh(state); distance is what averageDistanceTo evaluates to.
\* Yields the instance, the State object and the value returned.
refresh(self, state, distance) ==
  IF Len(state) >= self.minInputs
    THEN IF distance = Throws
           THEN [self |-> self, state |-> state, ret |-> Thrown]
           ELSE [self |-> [self EXCEPT !.previous = distance],
                 state |-> state, ret |-> NoValue]
    ELSE [self |-> self, state |-> state, ret |-> NoValue]

start(self, state, distance) == refresh(self, state, distance)

\* JavaScript's a - b for finite operands.
Sub(a, b) == Fin(a.n * b.d - b.n * a.d, a.d * b.d)

\* move emitting the difference of the distances instead of their ratio.
moveDifference(self, state, distance) ==
  IF Len(state) < self.minInputs
    THEN [self |-> self, state |-> state, ret |-> Null]
    ELSE IF distance = Throws
           THEN [self |-> self, state |-> state, ret |-> Thrown]
           ELSE [self |-> [self EXCEPT !.previous = distance],
                 state |-> state,
                 ret |-> Data(distance, Midpoint[state],
                              IF IsFinite(distance) THEN Sub(distance, self.previous) ELSE NaN)]

\* move with its guard off by one: one contact fewer than minInputs passes.
moveOffByOne(self, state, distance) ==
  IF Len(state) < self.minInputs - 1
    THEN [self |-> self, state |-> state, ret |-> Null]
    ELSE IF distance = Throws
           THEN [self |-> self, state |-> state, ret |-> Thrown]
           ELSE [self |-> [self EXCEPT !.previous = distance],
                 state |-> state,
                 ret |-> Data(distance, Midpoint[state], Div(distance, self.previous))]

move(self, state, distance) ==
  IF Len(state) < self.minInputs
    THEN [self |-> self, state |-> state, ret |-> Null]
    ELSE IF distance = Throws
           THEN [self |-> self, state |-> state, ret |-> Thrown]
           ELSE [self |-> [self EXCEPT !.previous = distance],
                 state |-> state,
                 ret |-> Data(distance, Midpoint[state], Div(distance, self.previous))]

\* end clearing the stored distance.
endClears(self, state, distance) ==
  [self |-> [self EXCEPT !.previous = Zero], state |-> state, ret |-> NoValue]

end(self, state, distance) == refresh(self, state, distance)

cancel(self, state, distance) == refresh(self, state, distance)

\* The instances that can be bound to one Region.
Instances == {"p1", "p2"}

\* The record of a hook call on instance i that returned r: its arguments,
\* the State object as the call left it, the value returned, the stored
\* distance a move was measured against (before) and the memory of the other
\* instances when the call was made (others).
Record(i, hook, state, r) ==
  [hook |-> hook, callee |-> i,
   before |-> IF hook = "move" THEN pinch[i].previous ELSE Zero,
   others |-> [j \in DOMAIN pinch \ {i} |-> pinch[j].previous],
   argIn |-> state, argOut |-> r.state, ret |-> r.ret]

\* A hook call on instance i returned r.
Returned(i, hook, state, r) ==
  /\ pinch' = [pinch EXCEPT ![i] = r.self]
  /\ call' = Record(i, hook, state, r)
  /\ UNCHANGED options

PinchStart(i) ==
  \E state \in States : \E distance \in DistanceOutcomes[state] :
    Returned(i, "start", state, start(pinch[i], state, distance))

\* move that does not store the distance it emitted.
PinchMoveForgets(i) ==
  \E state \in States : \E distance \in DistanceOutcomes[state] :
    LET r == move(pinch[i], state, distance)
    IN  Returned(i, "move", state, [r EXCEPT !.self = pinch[i]])

\* move keeping the distance in memory shared by every instance.
PinchMoveShared(i) ==
  \E state \in States : \E distance \in DistanceOutcomes[state] :
    LET r == move(pinch[i], state, distance)
    IN  /\ pinch' = [j \in DOMAIN pinch |->
                       [pinch[j] EXCEPT !.previous = r.self.previous]]
        /\ call' = Record(i, "move", state, r)
        /\ UNCHANGED options

PinchMove(i) ==
  \E state \in States : \E distance \in DistanceOutcomes[state] :
    Returned(i, "move", state, move(pinch[i], state, distance))

PinchEnd(i) ==
  \E state \in States : \E distance \in DistanceOutcomes[state] :
    Returned(i, "end", state, end(pinch[i], state, distance))

PinchCancel(i) ==
  \E state \in States : \E distance \in DistanceOutcomes[state] :
    Returned(i, "cancel", state, cancel(pinch[i], state, distance))

NoCall ==
  [hook |-> "new", callee |-> "p1", before |-> Zero,
   others |-> [j \in {} |-> Zero],
   argIn |-> <<>>, argOut |-> <<>>, ret |-> NoValue]

\* ------------------------------------------------------- runs of moves

NoRun == [base |-> Zero, product |-> One, len |-> 0]

\* The move just made was recognized, and neither the distance it was
\* measured against nor the one it measured is 0.
Recognized(c) ==
  c.ret.kind = "data" /\ IsNonZero(c.before) /\ IsNonZero(c.ret.distance)

\* After a move: the run grows by the change emitted, or is broken.
TrackRun ==
  run' = IF Recognized(call')
           THEN [base |-> IF run.len = 0 THEN call'.before ELSE run.base,
                 product |-> Mul(run.product, call'.ret.change),
                 len |-> IF run.len < MaxRun THEN run.len + 1 ELSE run.len]
           ELSE NoRun

\* After start, end or cancel: no run.
EndRun == run' = NoRun

\* ------------------------------------------------- cancel, then a fresh start

\* No hook call has had enough contacts yet.
NoBaseline == [seen |-> FALSE, state |-> <<>>]

\* After a hook call on instance i: the state it was given is remembered
\* when it has at least minInputs contacts.
TrackBaseline(i) ==
  baseline' = IF Len(call'.argIn) >= pinch[i].minInputs
                THEN [seen |-> TRUE, state |-> call'.argIn]
                ELSE baseline

\* No cancel has been received yet.
NoShadow == [phase |-> "idle", self |-> Pinch(Undefined), ret |-> NoValue]

\* What averageDistanceTo evaluates to for a state it is defined on.
TheDistance(state) == CHOOSE distance \in DistanceOutcomes[state] : TRUE

\* After the cancel of instance i: a new Pinch with the same options waits
\* for the next start.
ShadowCancel(i) ==
  shadow' = [phase |-> "cancelled", self |-> Pinch(options[i]), ret |-> NoValue]

\* After a start: once a cancel has been received, the new Pinch is given the
\* same start.
ShadowStart ==
  shadow' =
    IF shadow.phase = "idle" THEN shadow
    ELSE LET state == call'.argIn
             r == start(shadow.self, state, TheDistance(state))
         IN  [phase |-> "compare", self |-> r.self, ret |-> r.ret]

\* After a move: once started, the new Pinch is given the same move.
ShadowMove ==
  shadow' =
    IF shadow.phase # "compare" THEN shadow
    ELSE LET state == call'.argIn
             r == move(shadow.self, state, TheDistance(state))
         IN  [shadow EXCEPT !.self = r.self, !.ret = r.ret]

\* After an end: once started, the new Pinch is given the same end.
ShadowEnd ==
  shadow' =
    IF shadow.phase # "compare" THEN shadow
    ELSE LET state == call'.argIn
             r == end(shadow.self, state, TheDistance(state))
         IN  [shadow EXCEPT !.self = r.self, !.ret = r.ret]

\* ------------------------------------------------- Input, State and Region

\* Contact identifiers are 1..MaxTouch and State.active holds at most MaxTouch
\* Inputs; positions are the points 0..MaxPos; a Region has MaxBind Bindings
\* and receives at most MaxEvents events and unbind calls.
MaxTouch == 2

MaxPos == 1

MaxBind == 2

MaxEvents == 3

\* new Input: phase start, every position the initial one.
Input(id, position) ==
  [id |-> id, initial |-> position, current |-> position,
   previous |-> position, phase |-> "start"]

\* Input.update that leaves previous as it was.
updateKeepsPrevious(input, position, phase) ==
  [input EXCEPT !.current = position, !.phase = phase]

\* Input.update(position, phase).
update(input, position, phase) ==
  [input EXCEPT !.previous = input.current, !.current = position, !.phase = phase]

\* The index of the first Input with the identifier, 0 when there is none.
findIndex(inputs, id) ==
  IF \E k \in 1..Len(inputs) : inputs[k].id = id
    THEN CHOOSE k \in 1..Len(inputs) :
           /\ inputs[k].id = id
           /\ \A j \in 1..(k - 1) : inputs[j].id # id
    ELSE 0

\* State.addInput.
addInput(inputs, input) == Append(inputs, input)

\* updateInput answering every identifier with the first Input.
updateInputFirst(inputs, id, position, phase) ==
  IF inputs = <<>> THEN inputs
  ELSE [inputs EXCEPT ![1] = update(inputs[1], position, phase)]

\* State.updateInput.
updateInput(inputs, id, position, phase) ==
  LET k == findIndex(inputs, id)
  IN  IF k = 0 THEN inputs
      ELSE [inputs EXCEPT ![k] = update(inputs[k], position, phase)]

\* State.removeInput.
removeInput(inputs, id) ==
  LET k == findIndex(inputs, id)
  IN  IF k = 0 THEN inputs
      ELSE [j \in 1..(Len(inputs) - 1) |-> IF j < k THEN inputs[j] ELSE inputs[j + 1]]

\* The current positions of the Inputs, in order.
currentPoints(inputs) == [k \in 1..Len(inputs) |-> inputs[k].current]

\* How often point p occurs in a list of points.
Count(p, points) == Cardinality({k \in 1..Len(points) : points[k] = p})

\* A list of points in non-decreasing order: the centroid and the distances
\* do not depend on the order.
RECURSIVE Ascending(_, _)
Ascending(points, p) ==
  IF p > MaxPoint THEN <<>>
  ELSE [k \in 1..Count(p, points) |-> p] \o Ascending(points, p + 1)

Canonical(points) == Ascending(points, 0)

\* The lists of points whose average centroid distance is modelled.
Measured(points) == Canonical(points) \in States

\* No Input constructed.
NoInput ==
  /\ anInput = Input(0, 0)
  /\ inputTrail = <<>>

\* input.update(position, phase), at most MaxRun times.
InputUpdate ==
  \E position \in 0..MaxPoint, phase \in {"move", "end", "cancel"} :
    /\ Len(inputTrail) <= MaxRun
    /\ anInput' = update(anInput, position, phase)
    /\ inputTrail' = Append(inputTrail, [position |-> position, phase |-> phase])

\* A Binding: a handle, its own Gesture and the position of its registration.
Binding(handle, gesture, seq) == [handle |-> handle, gesture |-> gesture, seq |-> seq]

\* bind putting the new Binding in front of those registered before.
bindFirst(list, handle, gesture) ==
  <<Binding(handle, gesture, Len(list) + 1)>> \o list

\* bind: the new Binding is dispatched after those registered before.
bind(list, handle, gesture) == Append(list, Binding(handle, gesture, Len(list) + 1))

\* unbind splicing at the index found, -1 (the last Binding) for a handle
\* that is not bound.
unbindSplice(list, handle) ==
  IF \E k \in 1..Len(list) : list[k].handle = handle
    THEN SelectSeq(list, LAMBDA b : b.handle # handle)
    ELSE SubSeq(list, 1, Len(list) - 1)

\* unbind.
unbind(list, handle) == SelectSeq(list, LAMBDA b : b.handle # handle)

\* The hook of a Gesture that matches the phase of the event.
hook(phase, gesture, points) ==
  LET distance == TheDistance(points)
  IN  CASE phase = "begin" -> start(gesture, points, distance)
        [] phase = "move" -> move(gesture, points, distance)
        [] phase = "end" -> end(gesture, points, distance)
        [] phase = "cancel" -> cancel(gesture, points, distance)

\* The State mutation of a raw event.
mutate(inputs, phase, id, position) ==
  CASE phase = "begin" -> addInput(inputs, Input(id, position))
    [] phase = "move" -> updateInput(inputs, id, position, "move")
    [] phase \in {"end", "cancel"} -> updateInput(inputs, id, position, phase)

\* What the Region invokes for one event: for every Binding, in order, the
\* hook on the State and, for a non-null move result, the callback.
invoke(list, phase, inputs) ==
  LET points == Canonical(currentPoints(inputs))
      r == [k \in 1..Len(list) |-> hook(phase, list[k].gesture, points)]
  IN  [k \in 1..Len(list) |->
         [handle |-> list[k].handle, seq |-> list[k].seq, hook |-> phase,
          seen |-> inputs, ret |-> r[k].ret,
          gesture |-> r[k].self,
          callbacks |-> IF phase = "move" /\ r[k].ret.kind = "data" THEN 1 ELSE 0]]

\* The Region before it is attached.
NoEvent ==
  [type |-> "none", id |-> 0, position |-> 0, handle |-> 0,
   known |-> FALSE, again |-> FALSE]

NoRegion ==
  /\ active = <<>>
  /\ bindings = <<>>
  /\ released = {}
  /\ event = NoEvent
  /\ trace = <<>>
  /\ events = 0

\* What the Region records of a raw event: known tells whether the contact
\* identifier was in State.active when the event arrived.
Raw(phase, id, position) ==
  [type |-> phase, id |-> id, position |-> position, handle |-> 0,
   known |-> findIndex(active, id) # 0, again |-> FALSE]

\* The events the model delivers: the State keeps to MaxTouch Inputs whose
\* distances are modelled, and a terminal event reports the contact where it
\* was last seen.
Delivered(phase, id, position) ==
  LET updated == mutate(active, phase, id, position)
  IN  /\ events < MaxEvents
      /\ Len(updated) <= MaxTouch
      /\ Measured(currentPoints(updated))
      /\ IF phase \in {"end", "cancel"} /\ findIndex(active, id) # 0
           THEN position = active[findIndex(active, id)].current
           ELSE TRUE

\* The Region discarding a terminal Input before the hooks run.
RawEventRemoveFirst(phase, id, position) ==
  LET updated == IF phase \in {"end", "cancel"}
                   THEN removeInput(active, id)
                   ELSE mutate(active, phase, id, position)
      invoked == invoke(bindings, phase, updated)
  IN  /\ Delivered(phase, id, position)
      /\ trace' = invoked
      /\ bindings' = [k \in 1..Len(bindings) |->
                        [bindings[k] EXCEPT !.gesture = invoked[k].gesture]]
      /\ active' = updated
      /\ event' = Raw(phase, id, position)
      /\ events' = events + 1
      /\ UNCHANGED released

\* The Region handling one raw event: the State is updated, the hooks run on
\* the updated State, then a terminal Input is discarded.
RawEvent(phase, id, position) ==
  LET updated == mutate(active, phase, id, position)
      invoked == invoke(bindings, phase, updated)
  IN  /\ Delivered(phase, id, position)
      /\ trace' = invoked
      /\ bindings' = [k \in 1..Len(bindings) |->
                        [bindings[k] EXCEPT !.gesture = invoked[k].gesture]]
      /\ active' = IF phase \in {"end", "cancel"} THEN removeInput(updated, id)
                   ELSE updated
      /\ event' = Raw(phase, id, position)
      /\ events' = events + 1
      /\ UNCHANGED released

Begin == \E id \in 1..MaxTouch, position \in 0..MaxPos : RawEvent("begin", id, position)

Move == \E id \in 1..MaxTouch, position \in 0..MaxPos : RawEvent("move", id, position)

End == \E id \in 1..MaxTouch, position \in 0..MaxPos : RawEvent("end", id, position)

Cancel == \E id \in 1..MaxTouch, position \in 0..MaxPos : RawEvent("cancel", id, position)

\* unbind(handle), also on a handle released before.
Unbind ==
  \E handle \in 1..MaxBind :
    /\ events < MaxEvents
    /\ bindings' = unbind(bindings, handle)
    /\ released' = released \cup {handle}
    /\ event' = [type |-> "unbind", id |-> 0, position |-> 0, handle |-> handle,
                 known |-> FALSE, again |-> handle \in released]
    /\ trace' = <<>>
    /\ events' = events + 1
    /\ UNCHANGED active

\* ------------------------------------------------------------------- Tap

\* Pixel coordinates are 0, 2, .., 2 * MaxStep; a contact is followed for
\* MaxTicks ticks of the clock.
MaxStep == 5

MaxTicks == 3

Pixels == {2 * k : k \in 0..MaxStep}

\* The time window of a Tap, in ticks.
TapWindow == 2

\* new ZingTouch.Tap(options).
Tap(opts) == [tolerance |-> opts.tolerance]

\* tapper keeping ZingTouch's default tolerance.
tapperDefault == Tap([tolerance |-> 10])

\* Interactor.tapper.
tapper == Tap([tolerance |-> 4])

NoTapData == [kind |-> "null", x |-> 0, y |-> 0]

\* The end hook of a Tap: with one contact involved, released within the
\* tolerance of its initial position and within the time window, the result
\* is the release position.
tapEnd(self, initial, current, involved, elapsed) ==
  LET dx == current[1] - initial[1]
      dy == current[2] - initial[2]
  IN  IF /\ involved = 1
         /\ dx * dx + dy * dy <= self.tolerance * self.tolerance
         /\ elapsed <= TapWindow
        THEN [kind |-> "data", x |-> current[1], y |-> current[2]]
        ELSE NoTapData

\* Interactor.tap({ detail }): the arguments of its call of handlers.tap.
tapHandler(detail) ==
  LET e == detail.events[1]
  IN  <<e.clientX, e.clientY>>

NoTap ==
  [phase |-> "idle", initial |-> <<0, 0>>, current |-> <<0, 0>>,
   involved |-> 0, elapsed |-> 0, ret |-> NoTapData]

\* A contact begins while no other is down.
TapBegin ==
  \E x \in Pixels, y \in Pixels :
    /\ tap.phase \in {"idle", "ended"}
    /\ tap' = [phase |-> "down", initial |-> <<x, y>>, current |-> <<x, y>>,
               involved |-> 1, elapsed |-> 0, ret |-> NoTapData]
    /\ tapCalls' = <<>>

\* Another contact begins while the first is down.
TapOtherBegin ==
  /\ tap.phase = "down"
  /\ tap.involved < MaxTouch
  /\ tap' = [tap EXCEPT !.involved = @ + 1]
  /\ tapCalls' = <<>>

\* The contact moves.
TapMove ==
  \E x \in Pixels, y \in Pixels :
    /\ tap.phase = "down"
    /\ tap' = [tap EXCEPT !.current = <<x, y>>]
    /\ tapCalls' = <<>>

\* Time passes.
TapTick ==
  /\ tap.phase = "down"
  /\ tap.elapsed < MaxTicks
  /\ tap' = [tap EXCEPT !.elapsed = @ + 1]
  /\ tapCalls' = <<>>

\* The contact ends where it is: the Tap's end hook runs and the Region
\* calls Interactor.tap with a result.
TapEnd ==
  LET r == tapEnd(tapper, tap.initial, tap.current, tap.involved, tap.elapsed)
      detail == [events |-> <<[clientX |-> tap.current[1], clientY |-> tap.current[2]]>>]
  IN  /\ tap.phase = "down"
      /\ tap' = [tap EXCEPT !.phase = "ended", !.ret = r]
      /\ tapCalls' = IF r.kind = "data" THEN <<tapHandler(detail)>> ELSE <<>>

\* ------------------------------------------------------------------- Pan

\* A contact of a Pan is at one of the points 0..MaxPan.
MaxPan == 2

\* The Interactor's second Pan requires this many inputs; a Pan is given up
\* to this many.
PAN_INPUTS == 2

PanPoint(k) == <<10 * ((k + 1) \div 2), 10 * (k % 2)>>

PanStates == UNION {[1..n -> 0..MaxPan] : n \in 1..PAN_INPUTS}

Add(a, b) == Fin(a.n * b.d + b.n * a.d, a.d * b.d)

RECURSIVE Total(_, _, _)
Total(state, axis, k) ==
  IF k = 0 THEN 0 ELSE PanPoint(state[k])[axis] + Total(state, axis, k - 1)

\* State.centroid: the mean of the active points.
mean(state) ==
  <<Fin(Total(state, 1, Len(state)), Len(state)),
    Fin(Total(state, 2, Len(state)), Len(state))>>

Origin == <<Zero, Zero>>

\* new ZingTouch.Pan(options).
Pan(opt) == [minInputs |-> IF opt.given THEN opt.v ELSE 1, memory |-> Origin]

\* Interactor.panner.
panner == Pan(Undefined)

\* The Pan for two inputs that bindRegions binds.
twoInputPan == Pan(Given(PAN_INPUTS))

NoPanData == [kind |-> "null", x |-> Zero, y |-> Zero, change |-> Origin]

\* The start, end and cancel hooks of a Pan: the memory is the centroid.
panRefresh(self, state) ==
  [self |-> [self EXCEPT !.memory = mean(state)], ret |-> NoPanData]

\* The move hook of a Pan: the centroid and its displacement since the
\* previous call.
panMove(self, state) ==
  IF Len(state) < self.minInputs
    THEN [self |-> self, ret |-> NoPanData]
    ELSE LET c == mean(state)
         IN  [self |-> [self EXCEPT !.memory = c],
              ret |-> [kind |-> "data", x |-> c[1], y |-> c[2],
                       change |-> <<Sub(c[1], self.memory[1]),
                                    Sub(c[2], self.memory[2])>>]]

\* Interactor.pan with the two components of the change exchanged.
panHandlerSwapped(detail) ==
  LET e == detail.events[1]
      change == detail.data[1].change
  IN  <<e.clientX, e.clientY, change.y, change.x>>

\* Interactor.pan({ detail }): the arguments of its call of handlers.pan.
panHandler(detail) ==
  LET e == detail.events[1]
      change == detail.data[1].change
  IN  <<e.clientX, e.clientY, change.x, change.y>>

NoPanRun ==
  [hook |-> "new", state |-> <<>>, ret |-> NoPanData, valid |-> FALSE,
   base |-> Origin, before |-> Origin, total |-> Origin, len |-> 0]

\* start, end or cancel of the Pan on a state with contacts: a run of moves
\* begins at that state's centroid.
PanRefresh ==
  \E h \in {"start", "end", "cancel"}, state \in PanStates :
    LET r == panRefresh(pan, state)
    IN  /\ pan' = r.self
        /\ panRun' = [hook |-> h, state |-> state, ret |-> r.ret,
                      valid |-> Len(state) >= pan.minInputs,
                      base |-> mean(state), before |-> pan.memory,
                      total |-> Origin, len |-> 0]
        /\ panCalls' = <<>>

\* move of the Pan: with a result the Region calls Interactor.pan, and the
\* run goes on while the number of contacts is that of its first state.
PanMove ==
  \E state \in PanStates :
    LET r == panMove(pan, state)
        first == PanPoint(state[1])
        detail == [events |-> <<[clientX |-> first[1], clientY |-> first[2]]>>,
                   data |-> <<[change |-> [x |-> r.ret.change[1],
                                           y |-> r.ret.change[2]]]>>]
        calls == IF r.ret.kind = "data" THEN <<panHandler(detail)>> ELSE <<>>
        goesOn == /\ panRun.valid
                  /\ Len(state) = Len(panRun.state)
                  /\ r.ret.kind = "data"
    IN  /\ panRun.len < MaxRun
        /\ pan' = r.self
        /\ panCalls' = calls
        /\ panRun' = [hook |-> "move", state |-> state, ret |-> r.ret,
                      valid |-> goesOn,
                      base |-> panRun.base, before |-> pan.memory,
                      total |-> IF goesOn
                                  THEN <<Add(panRun.total[1], calls[1][3]),
                                         Add(panRun.total[2], calls[1][4])>>
                                  ELSE Origin,
                      len |-> IF goesOn THEN panRun.len + 1 ELSE 0]

NoHandlers ==
  /\ rotateCalls = <<>>
  /\ tap = NoTap
  /\ tapCalls = <<>>
  /\ pan = panner
  /\ panRun = NoPanRun
  /\ panCalls = <<>>

\* ---------------------------------------------------------------- Rotate

\* ZingTouch's Rotate accepts up to this many inputs.
MAX_INPUTS == 2

\* In degrees.
Angles == {45 * q : q \in 0..MaxTurn}

NoAngle == [known |-> FALSE, angle |-> 0]

NoRotateData == [kind |-> "null", distanceFromLast |-> 0]

\* ZingTouch's Rotate.move(inputs, state, element), the move that rotater
\* replaces: with at most MAX_INPUTS active inputs it emits the signed change
\* of the angle since its previous call and stores the angle.
rotateMove(self, numActiveInputs, angle) ==
  IF numActiveInputs <= MAX_INPUTS
    THEN [self |-> [known |-> TRUE, angle |-> angle],
          invoked |-> TRUE,
          ret |-> [kind |-> "data",
                   distanceFromLast |-> IF self.known THEN angle - self.angle ELSE 0]]
    ELSE [self |-> self, invoked |-> TRUE, ret |-> NoRotateData]

\* refineRotateMove deferring to the original for up to two inputs.
refineRotateMoveLax(self, numActiveInputs, angle) ==
  IF numActiveInputs <= 2
    THEN rotateMove(self, numActiveInputs, angle)
    ELSE [self |-> self, invoked |-> FALSE, ret |-> NoRotateData]

\* refineRotateMove(inputs, state, element), installed as rotate.move.
refineRotateMove(self, numActiveInputs, angle) ==
  IF numActiveInputs = 2
    THEN rotateMove(self, numActiveInputs, angle)
    ELSE [self |-> self, invoked |-> FALSE, ret |-> NoRotateData]

\* A multiple of pi: degrees * Math.PI / 180 is (degrees / 180) pi.
TimesPi(degrees) == Fin(degrees, 180)

\* Interactor.rotate handing the degrees on as they are.
rotateHandlerDegrees(detail) == <<Fin(detail.distanceFromLast, 1)>>

\* Interactor.rotate({ detail }): the arguments of its call of
\* handlers.rotate, the angle as a multiple of pi.
rotateHandler(detail) ==
  LET degrees == detail.distanceFromLast
      radians == TimesPi(degrees)
  IN  <<radians>>

NoRotateCall ==
  [hook |-> "new", numActiveInputs |-> 0, angle |-> 0, before |-> NoAngle,
   invoked |-> FALSE, ret |-> NoRotateData, original |-> NoRotateData]

\* rotate.move is called by the Region with numActiveInputs active inputs
\* whose first two lie at the given angle.
RotateMove ==
  \E numActiveInputs \in 0..MaxContacts : \E angle \in Angles :
    LET r == refineRotateMove(rotate, numActiveInputs, angle)
    IN  /\ rotate' = r.self
        /\ rotateCall' =
             [hook |-> "move", numActiveInputs |-> numActiveInputs,
              angle |-> angle, before |-> rotate, invoked |-> r.invoked,
              ret |-> r.ret,
              original |-> rotateMove(rotate, numActiveInputs, angle).ret]
        /\ rotateCalls' = IF r.ret.kind = "data" THEN <<rotateHandler(r.ret)>> ELSE <<>>
        /\ UNCHANGED <<options, pinch, call, run, shadow, baseline, regionVars, handlerVars, unitVars>>

\* ------------------------------------------------------------ shared/util

\* An array holds at most MaxLen elements.
MaxLen == 3

\* The elements: objects with an id; two objects with the same id differ in
\* mark.
Elements == [id : 1..MaxTouch, mark : BOOLEAN]

RECURSIVE ArraysOf(_)
ArraysOf(n) ==
  IF n = 0 THEN {<<>>}
  ELSE {Append(a, e) : a \in ArraysOf(n - 1), e \in Elements}

Arrays == UNION {ArraysOf(n) : n \in 0..MaxLen}

\* What is passed as item: nothing, or an object with an id that is a
\* ServerItem or a plain Object.
NoItem == [kind |-> "undefined", id |-> 0, mark |-> FALSE, class |-> "none"]

Items ==
  {NoItem} \cup
  {[kind |-> "object", id |-> e.id, mark |-> e.mark, class |-> c] :
     e \in Elements, c \in {"ServerItem", "Object"}}

\* array.findIndex(o => o.id === id), counted from 1: 0 when there is none.
findIndexOfId(a, id) ==
  IF \E k \in 1..Len(a) : a[k].id = id
    THEN CHOOSE k \in 1..Len(a) : a[k].id = id /\ \A j \in 1..(k - 1) : a[j].id # id
    ELSE 0

\* array.splice(k, 1).
splice1(a, k) == [j \in 1..(Len(a) - 1) |-> IF j < k THEN a[j] ELSE a[j + 1]]

\* removeById with array.splice(idx): everything from idx on is removed.
removeByIdTail(a, item) ==
  IF item.kind = "undefined"
    THEN IF a = <<>> THEN [array |-> a, threw |-> FALSE, ret |-> FALSE]
         ELSE [array |-> a, threw |-> TRUE, ret |-> FALSE]
    ELSE LET idx == findIndexOfId(a, item.id)
         IN  IF idx >= 1
               THEN [array |-> SubSeq(a, 1, idx - 1), threw |-> FALSE, ret |-> TRUE]
               ELSE [array |-> a, threw |-> FALSE, ret |-> FALSE]

\* removeById(array, item). Reading item.id of no item throws as soon as the
\* callback runs, which it does for a non-empty array.
removeById(a, item) ==
  IF item.kind = "undefined"
    THEN IF a = <<>> THEN [array |-> a, threw |-> FALSE, ret |-> FALSE]
         ELSE [array |-> a, threw |-> TRUE, ret |-> FALSE]
    ELSE LET idx == findIndexOfId(a, item.id)
         IN  IF idx >= 1
               THEN [array |-> splice1(a, idx), threw |-> FALSE, ret |-> TRUE]
               ELSE [array |-> a, threw |-> FALSE, ret |-> FALSE]

\* item instanceof class_fn.
instanceof(item, class_fn) == item.kind = "object" /\ item.class = class_fn

\* safeRemoveById refusing only a missing item.
safeRemoveByIdAnyObject(a, item, class_fn) ==
  IF item.kind = "undefined"
    THEN [array |-> a, threw |-> TRUE, ret |-> FALSE]
    ELSE removeById(a, item)

\* safeRemoveById(array, item, class_fn).
safeRemoveById(a, item, class_fn) ==
  IF ~instanceof(item, class_fn)
    THEN [array |-> a, threw |-> TRUE, ret |-> FALSE]
    ELSE removeById(a, item)

NoUtilCall == [op |-> "none", item |-> NoItem, threw |-> FALSE, ret |-> FALSE]

NoArray ==
  /\ array = <<>>
  /\ utilCall = NoUtilCall

\* removeById(array, item) is called.
RemoveById ==
  \E item \in Items :
    LET r == removeById(array, item)
    IN  /\ array' = r.array
        /\ utilCall' = [op |-> "removeById", item |-> item, threw |-> r.threw, ret |-> r.ret]

\* safeRemoveById(array, item, ServerItem) is called, as WorkSpace.removeItem
\* does.
SafeRemoveById ==
  \E item \in Items :
    LET r == safeRemoveById(array, item, "ServerItem")
    IN  /\ array' = r.array
        /\ utilCall' = [op |-> "safeRemoveById", item |-> item, threw |-> r.threw, ret |-> r.ret]

\* An object has own properties among the keys 1..MaxKey, with values in
\* 0..MaxPos; 0 is falsy.
MaxKey == 3

Objects == UNION {[keys -> 0..MaxPos] : keys \in SUBSET (1..MaxKey)}

\* An argument: an object, or undefined.
NoObject == [given |-> FALSE, obj |-> <<>>]

Arguments == {NoObject} \cup {[given |-> TRUE, obj |-> o] : o \in Objects}

\* A parameter with the default value {}.
OrEmpty(arg) == IF arg.given THEN arg.obj ELSE <<>>

\* getInitialValues taking data[k] || defaults[k].
getInitialValuesTruthy(defaultsArg, dataArg) ==
  LET defaults == OrEmpty(defaultsArg)
      data == OrEmpty(dataArg)
      rv == [k \in DOMAIN defaults |->
               IF k \in DOMAIN data /\ data[k] # 0 THEN data[k] ELSE defaults[k]]
  IN  [ret |-> rv, defaults |-> defaultsArg, data |-> dataArg]

\* getInitialValues(defaults = {}, data = {}): the object returned, and the
\* arguments as they are afterwards.
getInitialValues(defaultsArg, dataArg) ==
  LET defaults == OrEmpty(defaultsArg)
      data == OrEmpty(dataArg)
      rv == [k \in DOMAIN defaults |->
               IF k \in DOMAIN data THEN data[k] ELSE defaults[k]]
  IN  [ret |-> rv, defaults |-> defaultsArg, data |-> dataArg]

NoInitCall ==
  [op |-> "none", defaults |-> NoObject, data |-> NoObject, ret |-> <<>>,
   defaultsOut |-> NoObject, dataOut |-> NoObject]

\* A call of getInitialValues about to be made.
Pending(defaults, data) ==
  [op |-> "pending", defaults |-> defaults, data |-> data, ret |-> <<>>,
   defaultsOut |-> defaults, dataOut |-> data]

\* The call is made and returns.
GetInitialValues ==
  LET r == getInitialValues(initCall.defaults, initCall.data)
  IN  /\ initCall.op = "pending"
      /\ initCall' = [initCall EXCEPT !.op = "getInitialValues", !.ret = r.ret,
                                      !.defaultsOut = r.defaults, !.dataOut = r.data]

\* ------------------------------------------------------------------ findLast

\* The arrays given to findLast: objects told apart by their ids.
IdArrays == UNION {[1..n -> [id : 1..MaxTouch, mark : {FALSE}]] : n \in 0..MaxLen}

\* The callbacks given to findLast: true for the elements with one id (0: for
\* none); called with undefined, a callback returns true or false, or throws.
Callbacks == [id : 0..MaxTouch, onUndefined : {"true", "false", "throw"}]

\* fromIndex: absent, or a number from -1 to one past the greatest length.
FromIndexes == {Undefined} \cup {Given(v) : v \in (0 - 1)..MaxLen}

\* array[index], a JavaScript index starting at 0: undefined past the end.
At(a, index) ==
  IF index + 1 \in DOMAIN a
    THEN [kind |-> "element", index |-> index, value |-> a[index + 1]]
    ELSE [kind |-> "undefined", index |-> index, value |-> [id |-> 0, mark |-> FALSE]]

NullElement == [kind |-> "null", index |-> 0 - 1, value |-> [id |-> 0, mark |-> FALSE]]

\* callback.call(thisArg, array[fromIndex], fromIndex, array).
callbackCall(callback, a, index) ==
  IF At(a, index).kind = "undefined" THEN callback.onUndefined
  ELSE IF a[index + 1].id = callback.id THEN "true" ELSE "false"

\* The while loop of findLast and its return statement.
RECURSIVE findLastFrom(_, _, _)
findLastFrom(a, callback, fromIndex) ==
  IF fromIndex >= 0
    THEN LET r == callbackCall(callback, a, fromIndex)
         IN  IF r = "throw" THEN [threw |-> TRUE, ret |-> NullElement, array |-> a]
             ELSE IF r = "false" THEN findLastFrom(a, callback, fromIndex - 1)
             ELSE [threw |-> FALSE, ret |-> At(a, fromIndex), array |-> a]
    ELSE [threw |-> FALSE, ret |-> NullElement, array |-> a]

\* findLast(array, callback, fromIndex = array.length - 1, thisArg).
findLast(a, callback, fromIndexArg) ==
  findLastFrom(a, callback, IF fromIndexArg.given THEN fromIndexArg.v ELSE Len(a) - 1)

\* A call of findLast about to be made.
PendingFind(callback, fromIndex) ==
  [op |-> "pending", callback |-> callback, fromIndex |-> fromIndex,
   threw |-> FALSE, ret |-> NullElement, before |-> <<>>]

\* The call is made and returns or throws.
FindLast ==
  LET r == findLast(array, utilCall.callback, utilCall.fromIndex)
  IN  /\ utilCall.op = "pending"
      /\ array' = r.array
      /\ utilCall' = [utilCall EXCEPT !.op = "findLast", !.threw = r.threw,
                                      !.ret = r.ret, !.before = array]

\* An own data property of an object: its value and attributes. An absent
\* property has exists = FALSE.
Absent ==
  [exists |-> FALSE, value |-> 0, writable |-> FALSE, configurable |-> FALSE,
   enumerable |-> FALSE]

Properties ==
  {Absent} \cup
  [exists : {TRUE}, value : 0..MaxPos, writable : BOOLEAN, configurable : BOOLEAN,
   enumerable : BOOLEAN]

\* A field of a property descriptor: absent, or present with a value.
Unset == [set |-> FALSE, v |-> FALSE]

Set(v) == [set |-> TRUE, v |-> v]

NoField == [set |-> FALSE, v |-> 0]

Descriptors ==
  [value : {NoField} \cup {Set(v) : v \in 0..MaxPos},
   writable : {Unset, Set(TRUE), Set(FALSE)},
   configurable : {Unset, Set(TRUE), Set(FALSE)},
   enumerable : {Unset, Set(TRUE), Set(FALSE)}]

\* Object.defineProperty(obj, prop, desc) for a data descriptor on an
\* extensible object: the property afterwards, or a TypeError when a
\* non-configurable property would change.
defineProperty(p, desc) ==
  IF ~p.exists
    THEN [threw |-> FALSE,
          prop |-> [exists |-> TRUE,
                    value |-> IF desc.value.set THEN desc.value.v ELSE 0,
                    writable |-> desc.writable.set /\ desc.writable.v,
                    configurable |-> desc.configurable.set /\ desc.configurable.v,
                    enumerable |-> desc.enumerable.set /\ desc.enumerable.v]]
  ELSE IF /\ ~p.configurable
          /\ \/ desc.configurable.set /\ desc.configurable.v
             \/ desc.enumerable.set /\ desc.enumerable.v # p.enumerable
             \/ ~p.writable /\ desc.writable.set /\ desc.writable.v
             \/ ~p.writable /\ desc.value.set /\ desc.value.v # p.value
    THEN [threw |-> TRUE, prop |-> p]
  ELSE [threw |-> FALSE,
        prop |-> [exists |-> TRUE,
                  value |-> IF desc.value.set THEN desc.value.v ELSE p.value,
                  writable |-> IF desc.writable.set THEN desc.writable.v ELSE p.writable,
                  configurable |-> IF desc.configurable.set THEN desc.configurable.v
                                   ELSE p.configurable,
                  enumerable |-> IF desc.enumerable.set THEN desc.enumerable.v
                                 ELSE p.enumerable]]

\* obj.prop = v in strict mode.
assign(p, v) ==
  IF ~p.exists
    THEN [threw |-> FALSE,
          prop |-> [exists |-> TRUE, value |-> v, writable |-> TRUE,
                    configurable |-> TRUE, enumerable |-> TRUE]]
  ELSE IF p.writable
    THEN [threw |-> FALSE, prop |-> [p EXCEPT !.value = v]]
  ELSE [threw |-> TRUE, prop |-> p]

\* delete obj.prop in strict mode.
delete(p) ==
  IF p.exists /\ ~p.configurable
    THEN [threw |-> TRUE, prop |-> p]
    ELSE [threw |-> FALSE, prop |-> Absent]

\* The property defined unconfigurable and enumerable, but left writable.
defineOwnEnumerableProperty(p, val) ==
  defineProperty(p, [value |-> Set(val), configurable |-> Set(FALSE),
                     enumerable |-> Set(TRUE), writable |-> Set(TRUE)])

\* defineOwnImmutableEnumerableProperty(obj, prop, val).
defineOwnImmutableEnumerableProperty(p, val) ==
  defineProperty(p, [value |-> Set(val), configurable |-> Set(FALSE),
                     enumerable |-> Set(TRUE), writable |-> Set(FALSE)])

\* makeOwnPropertyImmutable(obj, prop).
makeOwnPropertyImmutable(p) ==
  LET desc == p
  IN  IF desc.exists /\ desc.configurable
        THEN defineProperty(p, [value |-> NoField, configurable |-> Set(FALSE),
                                enumerable |-> Unset, writable |-> Set(FALSE)])
        ELSE [threw |-> FALSE, prop |-> p]

NoStamp == [done |-> FALSE, value |-> 0]

NoPropCall == [op |-> "none", arg |-> 0, threw |-> FALSE]

NoProperty ==
  /\ prop = Absent
  /\ stamped = NoStamp
  /\ propCall = NoPropCall

\* An id is stamped on the object with defineOwnImmutableEnumerableProperty.
Stamp ==
  \E val \in 0..MaxPos :
    LET r == defineOwnImmutableEnumerableProperty(prop, val)
    IN  /\ prop' = r.prop
        /\ stamped' = IF r.threw \/ stamped.done THEN stamped
                      ELSE [done |-> TRUE, value |-> val]
        /\ propCall' = [op |-> "stamp", arg |-> val, threw |-> r.threw]

\* obj.id = v.
Assign ==
  \E v \in 0..MaxPos :
    LET r == assign(prop, v)
    IN  /\ prop' = r.prop
        /\ propCall' = [op |-> "assign", arg |-> v, threw |-> r.threw]
        /\ UNCHANGED stamped

\* Object.defineProperty(obj, 'id', desc).
Redefine ==
  \E desc \in Descriptors :
    LET r == defineProperty(prop, desc)
    IN  /\ prop' = r.prop
        /\ propCall' = [op |-> "defineProperty", arg |-> IF desc.value.set THEN desc.value.v ELSE 0, threw |-> r.threw]
        /\ UNCHANGED stamped

\* delete obj.id.
Delete ==
  LET r == delete(prop)
  IN  /\ prop' = r.prop
      /\ propCall' = [op |-> "delete", arg |-> 0, threw |-> r.threw]
      /\ UNCHANGED stamped

\* makeOwnPropertyImmutable(obj, 'id').
MakeImmutable ==
  LET r == makeOwnPropertyImmutable(prop)
  IN  /\ prop' = r.prop
      /\ propCall' = [op |-> "makeOwnPropertyImmutable", arg |-> 0, threw |-> r.threw]
      /\ UNCHANGED stamped

\* ------------------------------------------------------------ ServerViewSpace

\* The side of the workspace the view space lives in.
MaxSide == 3

\* new ServerViewSpace(bounds, values) is given bounds {x: MaxSide, y: MaxSide}.
bounds == [x |-> Fin(MaxSide, 1), y |-> Fin(MaxSide, 1)]

\* JavaScript's a / b for a positive finite a and any b but NaN and -Infinity.
Over(a, b) ==
  IF b.k = "inf" THEN Zero
  ELSE IF b.n = 0 THEN Infinity
  ELSE IF b.n < 0 THEN Fin(0 - a.n * b.d, a.d * (0 - b.n))
  ELSE Fin(a.n * b.d, a.d * b.n)

\* JavaScript's a + b for finite a.
Plus(a, b) == IF b.k = "fin" THEN Add(a, b) ELSE b

\* JavaScript's a <= b.
Leq(a, b) ==
  IF a.k = "nan" \/ b.k = "nan" THEN FALSE
  ELSE IF b.k = "inf" THEN TRUE
  ELSE IF a.k = "inf" THEN FALSE
  ELSE a.n * b.d <= b.n * a.d

\* JavaScript's a > 0.
Positive(a) == a.k = "inf" \/ (a.k = "fin" /\ a.n > 0)

\* The scales given to the constructor and to rescale.
Scales == {Fin(0 - 1, 1), Zero, Fin(1, 2), One, Fin(2, 1), Infinity}

\* The widths and heights given to the constructor.
Sizes == {1, 2}

\* The destinations given to moveTo.
Destinations == {Fin(k, 1) : k \in (0 - 1)..(MaxSide + 1)} \cup {Infinity}

\* The displacements given to moveBy.
Displacements == {Fin(k, 1) : k \in (0 - 2)..2} \cup {Infinity}

\* ServerViewSpace.canBeScaledTo(width, height).
canBeScaledTo(v, width, height) ==
  /\ Positive(width)
  /\ Positive(height)
  /\ Leq(Plus(v.x, width), bounds.x)
  /\ Leq(Plus(v.y, height), bounds.y)

\* ServerViewSpace.canMoveToX(x).
canMoveToX(v, x) == Leq(Zero, x) /\ Leq(Plus(v.effectiveWidth, x), bounds.x)

\* ServerViewSpace.canMoveToY(y).
canMoveToY(v, y) == Leq(Zero, y) /\ Leq(Plus(v.effectiveHeight, y), bounds.y)

\* A rescale that accepts every scale.
rescaleUnchecked(v, scale) ==
  [ret |-> TRUE,
   view |-> [v EXCEPT !.scale = scale,
                      !.effectiveWidth = Over(v.width, scale),
                      !.effectiveHeight = Over(v.height, scale)]]

\* ServerViewSpace.rescale(scale).
rescale(v, scale) ==
  LET effectiveWidth == Over(v.width, scale)
      effectiveHeight == Over(v.height, scale)
  IN  IF canBeScaledTo(v, effectiveWidth, effectiveHeight)
        THEN [ret |-> TRUE,
              view |-> [v EXCEPT !.scale = scale,
                                 !.effectiveWidth = effectiveWidth,
                                 !.effectiveHeight = effectiveHeight]]
        ELSE [ret |-> FALSE, view |-> v]

\* A moveTo that moves only when both destinations are acceptable.
moveToBoth(v, x, y) ==
  IF canMoveToX(v, x) /\ canMoveToY(v, y) THEN [v EXCEPT !.x = x, !.y = y] ELSE v

\* ServerViewSpace.moveTo(x, y).
moveTo(v, x, y) ==
  [v EXCEPT !.x = IF canMoveToX(v, x) THEN x ELSE v.x,
            !.y = IF canMoveToY(v, y) THEN y ELSE v.y]

\* ServerViewSpace.moveBy(dx, dy).
moveBy(v, dx, dy) == moveTo(v, Plus(v.x, dx), Plus(v.y, dy))

\* new ServerViewSpace(bounds, {x, y, width, height, scale}).
ServerViewSpace(x, y, width, height, scale) ==
  [x |-> Fin(x, 1), y |-> Fin(y, 1), width |-> Fin(width, 1),
   height |-> Fin(height, 1), scale |-> scale,
   effectiveWidth |-> Over(Fin(width, 1), scale),
   effectiveHeight |-> Over(Fin(height, 1), scale)]

\* The view space lies inside its bounds.
Inside(v) ==
  /\ Leq(Zero, v.x)
  /\ Leq(Zero, v.y)
  /\ Leq(Plus(v.x, v.effectiveWidth), bounds.x)
  /\ Leq(Plus(v.y, v.effectiveHeight), bounds.y)

NoViewCall == [op |-> "none", x |-> Zero, y |-> Zero, ret |-> FALSE]

NoView ==
  /\ view = ServerViewSpace(0, 0, 1, 1, One)
  /\ viewCall = NoViewCall

Rescale ==
  \E scale \in Scales :
    LET r == rescale(view, scale)
    IN  /\ view' = r.view
        /\ viewCall' = [op |-> "rescale", x |-> scale, y |-> scale, ret |-> r.ret]

MoveTo ==
  \E x \in Destinations, y \in Destinations :
    /\ view' = moveTo(view, x, y)
    /\ viewCall' = [op |-> "moveTo", x |-> x, y |-> y, ret |-> FALSE]

MoveBy ==
  \E dx \in Displacements, dy \in Displacements :
    /\ view' = moveBy(view, dx, dy)
    /\ viewCall' = [op |-> "moveBy", x |-> Plus(view.x, dx), y |-> Plus(view.y, dy),
                    ret |-> FALSE]

\* ---------------------------------------------------------------- Interactor

\* Objects allocated before the Interactor is constructed.
MaxHeap == 1

\* NOP, and the function a caller supplies under a key.
NOP == <<"NOP">>

Supplied(key) == <<"supplied", key>>

HandlerNames == {"pan", "rotate", "tap", "zoom"}

\* The frozen HANDLERS object.
HANDLERS == [given |-> TRUE, obj |-> [name \in HandlerNames |-> NOP]]

\* The handlers argument of the constructor: undefined, or an object with
\* functions under some of the four keys and under a key of its own.
HandlerArguments ==
  {NoObject} \cup
  {[given |-> TRUE, obj |-> [key \in keys |-> Supplied(key)]] :
     keys \in SUBSET (HandlerNames \cup {"swipe"})}

\* The result of a new expression or of Function.prototype.bind: an object
\* no reference made before points to.
Fresh(heap) == heap + 1

\* A Gesture object: its variant, its identity and its configuration.
Gesture(type, instance, value) == [type |-> type, instance |-> instance, value |-> value]

\* this.region.bind(element, gesture, handler).
regionBind(registered, element, gesture, handler) ==
  Append(registered, [element |-> element, gesture |-> gesture, handler |-> handler])

\* bindRegions binding the Pan of panner a second time.
bindRegionsOnePan(self) ==
  LET boundPan == [method |-> "pan", ref |-> Fresh(self.heap)]
      boundTap == [method |-> "tap", ref |-> Fresh(boundPan.ref)]
      boundPinch == [method |-> "pinch", ref |-> Fresh(boundTap.ref)]
      boundRotate == [method |-> "rotate", ref |-> Fresh(boundPinch.ref)]
      thePanner == Gesture("Pan", Fresh(boundRotate.ref), panner)
      theTapper == Gesture("Tap", Fresh(thePanner.instance), tapper)
      thePincher == Gesture("Pinch", Fresh(theTapper.instance), Pinch(Undefined))
      theRotater == Gesture("Rotate", Fresh(thePincher.instance), NoAngle)
      r1 == regionBind(self.registered, "canvas", thePanner, boundPan)
      r2 == regionBind(r1, "canvas", theTapper, boundTap)
      r3 == regionBind(r2, "canvas", thePincher, boundPinch)
      r4 == regionBind(r3, "canvas", theRotater, boundRotate)
      r5 == regionBind(r4, "canvas", thePanner, boundPan)
  IN  [self EXCEPT !.registered = r5, !.heap = theRotater.instance]

\* Interactor.bindRegions().
bindRegions(self) ==
  LET boundPan == [method |-> "pan", ref |-> Fresh(self.heap)]
      boundTap == [method |-> "tap", ref |-> Fresh(boundPan.ref)]
      boundPinch == [method |-> "pinch", ref |-> Fresh(boundTap.ref)]
      boundRotate == [method |-> "rotate", ref |-> Fresh(boundPinch.ref)]
      thePanner == Gesture("Pan", Fresh(boundRotate.ref), panner)
      theTapper == Gesture("Tap", Fresh(thePanner.instance), tapper)
      thePincher == Gesture("Pinch", Fresh(theTapper.instance), Pinch(Undefined))
      theRotater == Gesture("Rotate", Fresh(thePincher.instance), NoAngle)
      thePan == Gesture("Pan", Fresh(theRotater.instance), twoInputPan)
      r1 == regionBind(self.registered, "canvas", thePanner, boundPan)
      r2 == regionBind(r1, "canvas", theTapper, boundTap)
      r3 == regionBind(r2, "canvas", thePincher, boundPinch)
      r4 == regionBind(r3, "canvas", theRotater, boundRotate)
      r5 == regionBind(r4, "canvas", thePan, boundPan)
  IN  [self EXCEPT !.registered = r5, !.heap = thePan.instance]

\* Before new Interactor(canvas, handlers) is evaluated.
Unconstructed(handlers, heap) ==
  [phase |-> "new", argument |-> handlers, handlers |-> <<>>, registered |-> <<>>,
   wheel |-> 0, heap |-> heap]

\* window.addEventListener('wheel', this.wheel.bind(this), false).
addWheelListener(self) == [self EXCEPT !.wheel = Fresh(self.heap), !.heap = Fresh(self.heap)]

\* The constructor keeping the handlers argument as it is given.
InteractorAsGiven(self) ==
  addWheelListener(
    bindRegions([self EXCEPT !.phase = "bound", !.handlers = OrEmpty(self.argument)]))

\* new Interactor(canvas, handlers).
Interactor(self) ==
  addWheelListener(
    bindRegions([self EXCEPT !.phase = "bound",
                             !.handlers = getInitialValues(HANDLERS, self.argument).ret]))

\* Interactor.pinch({ detail }): the arguments of its call of handlers.zoom.
pinchHandler(detail) == <<Mul(detail.change, Fin(5, 1000))>>

\* The details of the events the Region emits for a Binding, by variant.
PanDetails ==
  {[events |-> <<[clientX |-> x, clientY |-> x + 1]>>,
    data |-> <<[change |-> [x |-> Fin(dx, 1), y |-> Fin(dx + 2, 1)]]>>] :
     x \in 0..MaxPos, dx \in 0..MaxPos}

TapDetails == {[events |-> <<[clientX |-> x, clientY |-> x + 1]>>] : x \in 0..MaxPos}

PinchDetails == {[change |-> Fin(c, 2)] : c \in 1..3}

RotateDetails == {[distanceFromLast |-> 45 * q] : q \in 1..2}

Details(type) ==
  CASE type = "Pan" -> PanDetails
    [] type = "Tap" -> TapDetails
    [] type = "Pinch" -> PinchDetails
    [] type = "Rotate" -> RotateDetails

\* Interactor.wheel(event): the arguments of its call of handlers.zoom.
wheelHandler(wheelEvent) ==
  LET factor == IF wheelEvent.ctrlKey THEN Fin(10, 100) ELSE Fin(2, 100)
      sign == IF wheelEvent.deltaY > 0 THEN 1 ELSE IF wheelEvent.deltaY < 0 THEN 0 - 1 ELSE 0
  IN  <<Fin(0 - sign * factor.n, factor.d)>>

WheelEvents == [ctrlKey : BOOLEAN, deltaY : (0 - 1)..1]

\* this.handlers[name](...args): the call made, or the TypeError of calling
\* undefined.
callHandler(self, name, args) ==
  IF name \in DOMAIN self.handlers
    THEN [threw |-> FALSE, calls |-> <<[name |-> name, fn |-> self.handlers[name], args |-> args]>>]
    ELSE [threw |-> TRUE, calls |-> <<>>]

\* The bound method called with { detail }: the handler it calls, and with
\* what.
intermediary(self, handler, detail) ==
  CASE handler.method = "pan" -> callHandler(self, "pan", panHandler(detail))
    [] handler.method = "tap" -> callHandler(self, "tap", tapHandler(detail))
    [] handler.method = "pinch" -> callHandler(self, "zoom", pinchHandler(detail))
    [] handler.method = "rotate" -> callHandler(self, "rotate", rotateHandler(detail))
    [] handler.method = "wheel" -> callHandler(self, "zoom", wheelHandler(detail))

NoHandlerCall == [binding |-> 0, handler |-> 0, method |-> "none", threw |-> FALSE, calls |-> <<>>]

NoInteractor ==
  /\ interactor = Unconstructed(NoObject, 0)
  /\ handlerCall = NoHandlerCall

\* The constructor runs.
Construct ==
  /\ interactor.phase = "new"
  /\ interactor' = Interactor(interactor)
  /\ UNCHANGED handlerCall

\* The Region emits the event of its k-th Binding: the handler registered
\* with it is called.
Emit ==
  \E k \in 1..Len(interactor.registered) :
    \E detail \in Details(interactor.registered[k].gesture.type) :
      LET handler == interactor.registered[k].handler
          r == intermediary(interactor, handler, detail)
      IN  /\ handlerCall' = [binding |-> k, handler |-> handler.ref,
                             method |-> handler.method, threw |-> r.threw,
                             calls |-> r.calls]
          /\ UNCHANGED interactor

\* The window dispatches a wheel event: the listener added by the constructor
\* is called.
Wheel ==
  \E wheelEvent \in WheelEvents :
    LET handler == [method |-> "wheel", ref |-> interactor.wheel]
        r == intermediary(interactor, handler, wheelEvent)
    IN  /\ interactor.phase = "bound"
        /\ handlerCall' = [binding |-> 0, handler |-> handler.ref,
                           method |-> handler.method, threw |-> r.threw,
                           calls |-> r.calls]
        /\ UNCHANGED interactor

\* --------------------------------------------------------------- ClientViewer

\* The interval timers one window hands out.
MaxTimers == 3

\* window.innerWidth and window.innerHeight.
InnerSize == [width |-> 4, height |-> 8]

\* The centre of a Hammer event.
Centers == {[x |-> 2 * i, y |-> 2 * j] : i \in 0..MaxPos, j \in 0..1}

\* new ClientViewer(data), its position, scale and rotation taken from data;
\* resize() sets the sizes.
ClientViewer(x, y, scale, rotation) ==
  [id |-> 0, x |-> x, y |-> y, scale |-> scale, rotation |-> rotation,
   width |-> InnerSize.width, height |-> InnerSize.height,
   effectiveWidth |-> InnerSize.width \div scale,
   effectiveHeight |-> InnerSize.height \div scale,
   startScale |-> 0, transforming |-> FALSE, mouse |-> [x |-> 0, y |-> 0],
   otherViewers |-> <<>>, animator |-> 0]

\* ClientViewer.getMouseCoordinates(event).
getMouseCoordinates(self, e) ==
  LET base == [x |-> e.center.x \div self.scale + self.x,
               y |-> e.center.y \div self.scale + self.y]
      center == [x |-> (self.effectiveWidth \div 2) + self.x,
                 y |-> (self.effectiveHeight \div 2) + self.y]
  IN  CASE self.rotation = "ROTATE_0" -> [x |-> base.x, y |-> base.y]
        [] self.rotation = "ROTATE_90" ->
             [x |-> (2 * self.x) + self.effectiveWidth - base.x,
              y |-> (2 * self.y) + self.effectiveHeight - base.y]
        [] self.rotation = "ROTATE_180" ->
             [x |-> center.x - center.y + base.y, y |-> center.y + center.x - base.x]
        [] self.rotation = "ROTATE_270" ->
             [x |-> center.x + center.y - base.y, y |-> center.y - center.x + base.x]

\* drag without the test of this.transforming.
dragAlways(self, e) ==
  LET lastMouse == self.mouse
      mouse == getMouseCoordinates(self, e)
  IN  [self |-> [self EXCEPT !.mouse = mouse],
       emitted |-> <<[type |-> "MSG_DRAG", x |-> mouse.x, y |-> mouse.y,
                      dx |-> lastMouse.x - mouse.x, dy |-> lastMouse.y - mouse.y]>>]

\* ClientViewer.drag(event): the viewer afterwards and the messages emitted.
drag(self, e) ==
  IF self.transforming
    THEN [self |-> self, emitted |-> <<>>]
    ELSE LET lastMouse == self.mouse
             mouse == getMouseCoordinates(self, e)
         IN  [self |-> [self EXCEPT !.mouse = mouse],
              emitted |-> <<[type |-> "MSG_DRAG", x |-> mouse.x, y |-> mouse.y,
                             dx |-> lastMouse.x - mouse.x, dy |-> lastMouse.y - mouse.y]>>]

\* ClientViewer.dragend(event).
dragend(self, e) == [self |-> self, emitted |-> <<>>]

\* ClientViewer.dragstart(event).
dragstart(self, e) ==
  [self |-> [self EXCEPT !.mouse = getMouseCoordinates(self, e)], emitted |-> <<>>]

\* ClientViewer.tap(event).
viewerTap(self, e) ==
  LET mouse == getMouseCoordinates(self, e)
  IN  [self |-> [self EXCEPT !.mouse = mouse],
       emitted |-> <<[type |-> "MSG_CLICK", x |-> mouse.x, y |-> mouse.y, dx |-> 0, dy |-> 0]>>]

\* ClientViewer.transformstart(event).
transformstart(self, e) ==
  [self |-> [self EXCEPT !.transforming = TRUE, !.startScale = self.scale],
   emitted |-> <<>>]

\* ClientViewer.transformend(event); 0 stands for null.
transformend(self, e) ==
  [self |-> [self EXCEPT !.transforming = FALSE, !.startScale = 0], emitted |-> <<>>]

\* ClientViewer.transform(event): null * number is 0.
transform(self, e) ==
  [self |-> self,
   emitted |-> <<[type |-> "MSG_SCALE", x |-> e.scale * self.startScale, y |-> 0,
                  dx |-> 0, dy |-> 0]>>]

\* The window's interval timers: those active, and the number handed out.
NoTimers == [active |-> {}, made |-> 0]

\* window.clearInterval(id): no effect for an id that is not active.
clearInterval(t, id) == [t EXCEPT !.active = t.active \ {id}]

\* window.setInterval(f, delay): a new positive id.
setInterval(t) ==
  [timers |-> [active |-> t.active \cup {t.made + 1}, made |-> t.made + 1],
   id |-> t.made + 1]

\* run scheduling a timer without cancelling the one it stored.
runKeepsTimer(self, t) ==
  LET s == setInterval(t)
  IN  [self |-> [self EXCEPT !.animator = s.id], timers |-> s.timers]

\* ClientViewer.run(); 0 stands for the null animator.
run_(self, t) ==
  LET s == setInterval(clearInterval(t, self.animator))
  IN  [self |-> [self EXCEPT !.animator = s.id], timers |-> s.timers]

\* The ids the server hands out to viewers.
MaxViewers == 3

ViewerIds == 1..MaxViewers

\* What the server reports of a viewer: its id and its position.
ViewerInfos == [id : ViewerIds, x : 0..1]

\* new ShadowViewer(values): the values, the id stamped.
ShadowViewer(values) == [id |-> values.id, x |-> values.x]

\* Viewer.assign(data): the position is taken over; the stamped id stays.
viewerAssign(v, data) == [v EXCEPT !.x = data.x]

\* ClientViewer.addViewer(info).
addViewer(self, info) ==
  [self EXCEPT !.otherViewers = Append(self.otherViewers, ShadowViewer(info))]

\* The index of the first element with the id, 0 for none.
findViewer(viewers, id) ==
  IF \E k \in 1..Len(viewers) : viewers[k].id = id
    THEN CHOOSE k \in 1..Len(viewers) :
           /\ viewers[k].id = id
           /\ \A j \in 1..(k - 1) : viewers[j].id # id
    ELSE 0

\* ClientViewer.removeViewer(id).
removeViewer(self, id) ==
  LET index == findViewer(self.otherViewers, id)
  IN  IF index >= 1
        THEN [self EXCEPT !.otherViewers =
                SubSeq(self.otherViewers, 1, index - 1)
                  \o SubSeq(self.otherViewers, index + 1, Len(self.otherViewers))]
        ELSE self

\* updateViewer adding a viewer for every id but its own.
updateViewerAdds(self, vsInfo) ==
  IF vsInfo.id = self.id THEN viewerAssign(self, vsInfo) ELSE addViewer(self, vsInfo)

\* ClientViewer.updateViewer(vsInfo).
updateViewer(self, vsInfo) ==
  IF vsInfo.id = self.id
    THEN viewerAssign(self, vsInfo)
    ELSE LET k == findViewer(self.otherViewers, vsInfo.id)
         IN  IF k >= 1
               THEN [self EXCEPT !.otherViewers[k] = viewerAssign(@, vsInfo)]
               ELSE addViewer(self, vsInfo)

\* The lists of viewer infos with distinct ids from a set.
RECURSIVE DistinctInfos(_)
DistinctInfos(ids) ==
  {<<>>} \cup
  UNION {{<<info>> \o rest : rest \in DistinctInfos(ids \ {info.id})} :
           info \in {i \in ViewerInfos : i.id \in ids}}

RECURSIVE addViewers(_, _)
addViewers(self, viewers) ==
  IF viewers = <<>> THEN self
  ELSE addViewers(addViewer(self, viewers[1]), Tail(viewers))

\* ClientViewer.setup(data): the id is stamped and the viewers are added.
setup(self, data) == addViewers([self EXCEPT !.id = data.id], data.viewers)

UpdateViewer ==
  \E vsInfo \in ViewerInfos :
    /\ viewer' = updateViewer(viewer, vsInfo)
    /\ viewerCall' = [op |-> "updateViewer", info |-> vsInfo]
    /\ UNCHANGED timers

RemoveViewer ==
  \E id \in ViewerIds :
    /\ viewer' = removeViewer(viewer, id)
    /\ viewerCall' = [op |-> "removeViewer", info |-> [id |-> id, x |-> 0]]
    /\ UNCHANGED timers

NoViewerCall ==
  [op |-> "none", center |-> [x |-> 0, y |-> 0], inTransform |-> FALSE, emitted |-> <<>>]

NoViewer ==
  /\ viewer = ClientViewer(0, 0, 1, "ROTATE_0")
  /\ viewerCall = NoViewerCall
  /\ timers = NoTimers

\* Hammer delivers an event to the handler bound to it: r is what the handler
\* does; between a transformstart and the next transformend, inTransform holds.
Handled_(op, e, r, inTransform) ==
  /\ viewer' = r.self
  /\ viewerCall' = [op |-> op, center |-> e.center, inTransform |-> inTransform,
                    emitted |-> r.emitted]
  /\ UNCHANGED timers

\* The events of a pointer, and those of a pinch.
HammerEvents == [center : Centers, scale : {1}]

PinchEvents == [center : {[x |-> 0, y |-> 0]}, scale : {1, 2}]

Drag == \E e \in HammerEvents : Handled_("drag", e, drag(viewer, e), viewerCall.inTransform)

DragStart ==
  \E e \in HammerEvents :
    Handled_("dragstart", e, dragstart(viewer, e), viewerCall.inTransform)

DragEnd ==
  \E e \in HammerEvents : Handled_("dragend", e, dragend(viewer, e), viewerCall.inTransform)

ViewerTap ==
  \E e \in HammerEvents : Handled_("tap", e, viewerTap(viewer, e), viewerCall.inTransform)

TransformStart ==
  \E e \in PinchEvents : Handled_("transformstart", e, transformstart(viewer, e), TRUE)

Transform ==
  \E e \in PinchEvents :
    Handled_("transform", e, transform(viewer, e), viewerCall.inTransform)

TransformEnd ==
  \E e \in PinchEvents : Handled_("transformend", e, transformend(viewer, e), FALSE)

\* viewer.run() is called, at most MaxTimers times.
Run ==
  LET r == run_(viewer, timers)
  IN  /\ timers.made < MaxTimers
      /\ viewer' = r.self
      /\ timers' = r.timers
      /\ viewerCall' = [viewerCall EXCEPT !.op = "run", !.emitted = <<>>]

\* Nothing but the Gestures, the Region and the Interactor's handlers exists.
NoUnit ==
  /\ NoInput /\ NoArray /\ initCall = NoInitCall /\ NoProperty /\ NoView /\ NoInteractor
  /\ NoViewer

\* No Gesture has been called, no Region attached and no handler called.
NoGestures ==
  /\ options = [i \in {"p1"} |-> Undefined]
  /\ pinch = [i \in DOMAIN options |-> Pinch(options[i])]
  /\ call = NoCall
  /\ run = NoRun
  /\ rotate = NoAngle
  /\ rotateCall = NoRotateCall
  /\ shadow = NoShadow
  /\ baseline = NoBaseline
  /\ NoRegion
  /\ NoHandlers

gestureVars ==
  <<options, pinch, call, run, rotate, rotateCall, shadow, baseline, regionVars,
    rotateCalls, handlerVars>>

\* -------------------------------------------------------- specifications

\* One Pinch, constructed with any options.
Init ==
  /\ options \in [{"p1"} -> OptionValues]
  /\ pinch = [i \in DOMAIN options |-> Pinch(options[i])]
  /\ call = NoCall
  /\ run = NoRun
  /\ rotate = NoAngle
  /\ rotateCall = NoRotateCall
  /\ shadow = NoShadow
  /\ baseline = NoBaseline
  /\ NoHandlers
  /\ NoUnit
  /\ NoRegion

Next ==
  \E i \in DOMAIN pinch :
    /\ PinchStart(i) \/ PinchMove(i) \/ PinchEnd(i) \/ PinchCancel(i)
    /\ UNCHANGED <<run, rotate, rotateCall, shadow, baseline, regionVars, rotateCalls, handlerVars, unitVars>>

Spec == Init /\ [][Next]_vars

\* One Pinch with the default options; the runs of moves are recorded.
InitRun ==
  /\ options = [i \in {"p1"} |-> Undefined]
  /\ pinch = [i \in DOMAIN options |-> Pinch(options[i])]
  /\ call = NoCall
  /\ run = NoRun
  /\ rotate = NoAngle
  /\ rotateCall = NoRotateCall
  /\ shadow = NoShadow
  /\ baseline = NoBaseline
  /\ NoHandlers
  /\ NoUnit
  /\ NoRegion

NextRun ==
  \E i \in DOMAIN pinch :
    /\ \/ PinchMove(i) /\ TrackRun
       \/ (PinchStart(i) \/ PinchEnd(i) \/ PinchCancel(i)) /\ EndRun
    /\ UNCHANGED <<rotate, rotateCall, shadow, baseline, regionVars, rotateCalls, handlerVars, unitVars>>

SpecRun == InitRun /\ [][NextRun]_vars

\* Two Pinch instances with the default options, bound to one Region.
InitShared ==
  /\ options = [i \in Instances |-> Undefined]
  /\ pinch = [i \in DOMAIN options |-> Pinch(options[i])]
  /\ call = NoCall
  /\ run = NoRun
  /\ rotate = NoAngle
  /\ rotateCall = NoRotateCall
  /\ shadow = NoShadow
  /\ baseline = NoBaseline
  /\ NoHandlers
  /\ NoUnit
  /\ NoRegion

SpecShared == InitShared /\ [][Next]_vars

\* One Pinch, constructed with any options; the state of the latest hook call
\* with at least minInputs contacts is remembered.
NextBaseline ==
  \E i \in DOMAIN pinch :
    /\ PinchStart(i) \/ PinchMove(i) \/ PinchEnd(i) \/ PinchCancel(i)
    /\ TrackBaseline(i)
    /\ UNCHANGED <<run, rotate, rotateCall, shadow, regionVars, rotateCalls, handlerVars, unitVars>>

SpecBaseline == Init /\ [][NextBaseline]_vars

\* One Pinch with a positive minInputs; after each cancel a newly constructed
\* Pinch is given the same calls from the next start on.
InitCancel ==
  /\ options \in [{"p1"} -> {o \in OptionValues : OrDefault(o, DEFAULT_MIN_INPUTS) >= 1}]
  /\ pinch = [i \in DOMAIN options |-> Pinch(options[i])]
  /\ call = NoCall
  /\ run = NoRun
  /\ rotate = NoAngle
  /\ rotateCall = NoRotateCall
  /\ shadow = NoShadow
  /\ baseline = NoBaseline
  /\ NoHandlers
  /\ NoUnit
  /\ NoRegion

NextCancel ==
  \E i \in DOMAIN pinch :
    /\ \/ PinchStart(i) /\ ShadowStart
       \/ PinchMove(i) /\ ShadowMove
       \/ PinchEnd(i) /\ ShadowEnd
       \/ PinchCancel(i) /\ ShadowCancel(i)
    /\ UNCHANGED <<run, rotate, rotateCall, baseline, regionVars, rotateCalls, handlerVars, unitVars>>

SpecCancel == InitCancel /\ [][NextCancel]_vars

\* A Region with MaxBind Bindings, each with a Pinch of its own; Binding h
\* requires h contacts, and the Bindings were registered in ascending or in
\* descending order of their handles.
RECURSIVE bindAll(_, _)
bindAll(list, handles) ==
  IF handles = <<>> THEN list
  ELSE bindAll(bind(list, Head(handles), Pinch(Given(Head(handles)))), Tail(handles))

InitRegion ==
  /\ options = [i \in {"p1"} |-> Undefined]
  /\ pinch = [i \in DOMAIN options |-> Pinch(options[i])]
  /\ call = NoCall
  /\ run = NoRun
  /\ rotate = NoAngle
  /\ rotateCall = NoRotateCall
  /\ shadow = NoShadow
  /\ baseline = NoBaseline
  /\ NoHandlers
  /\ NoUnit
  /\ active = <<>>
  /\ bindings \in {bindAll(<<>>, [k \in 1..MaxBind |-> k]),
                   bindAll(<<>>, [k \in 1..MaxBind |-> MaxBind + 1 - k])}
  /\ released = {}
  /\ event = NoEvent
  /\ trace = <<>>
  /\ events = 0

NextRegion ==
  /\ Begin \/ Move \/ End \/ Cancel \/ Unbind
  /\ UNCHANGED <<options, pinch, call, run, rotate, rotateCall, shadow, baseline, rotateCalls, handlerVars, unitVars>>

SpecRegion == InitRegion /\ [][NextRegion]_vars

\* The Tap built by Interactor.tapper following one contact at a time.
InitTap ==
  /\ options = [i \in {"p1"} |-> Undefined]
  /\ pinch = [i \in DOMAIN options |-> Pinch(options[i])]
  /\ call = NoCall
  /\ run = NoRun
  /\ rotate = NoAngle
  /\ rotateCall = NoRotateCall
  /\ shadow = NoShadow
  /\ baseline = NoBaseline
  /\ NoRegion
  /\ NoHandlers
  /\ NoUnit

NextTap ==
  /\ TapBegin \/ TapOtherBegin \/ TapMove \/ TapTick \/ TapEnd
  /\ UNCHANGED <<options, pinch, call, run, rotate, rotateCall, shadow, baseline, regionVars,
                 rotateCalls, pan, panRun, panCalls, unitVars>>

SpecTap == InitTap /\ [][NextTap]_vars

\* One of the two Pans that bindRegions binds, its hooks called with any
\* states.
InitPan ==
  /\ options = [i \in {"p1"} |-> Undefined]
  /\ pinch = [i \in DOMAIN options |-> Pinch(options[i])]
  /\ call = NoCall
  /\ run = NoRun
  /\ rotate = NoAngle
  /\ rotateCall = NoRotateCall
  /\ shadow = NoShadow
  /\ baseline = NoBaseline
  /\ NoRegion
  /\ rotateCalls = <<>>
  /\ tap = NoTap
  /\ tapCalls = <<>>
  /\ pan \in {panner, twoInputPan}
  /\ panRun = NoPanRun
  /\ panCalls = <<>>
  /\ NoUnit

NextPan ==
  /\ PanRefresh \/ PanMove
  /\ UNCHANGED <<options, pinch, call, run, rotate, rotateCall, shadow, baseline, regionVars,
                 rotateCalls, tap, tapCalls, unitVars>>

SpecPan == InitPan /\ [][NextPan]_vars

\* One Input, constructed at any position and then updated.
InitInput ==
  /\ NoGestures
  /\ NoViewer
  /\ NoInteractor
  /\ NoArray
  /\ initCall = NoInitCall
  /\ NoProperty
  /\ NoView
  /\ \E position \in 0..MaxPoint :
       /\ anInput = Input(1, position)
       /\ inputTrail = <<[position |-> position, phase |-> "start"]>>

NextInput == InputUpdate /\ UNCHANGED <<gestureVars, viewer, viewerCall, timers, interactor, handlerCall, array, utilCall, initCall, prop, stamped, propCall, view, viewCall>>

SpecInput == InitInput /\ [][NextInput]_vars

\* Any array of objects, from which items are removed.
InitRemove ==
  /\ NoGestures
  /\ NoViewer
  /\ NoInteractor
  /\ NoInput
  /\ array \in Arrays
  /\ utilCall = NoUtilCall
  /\ initCall = NoInitCall
  /\ NoProperty
  /\ NoView

NextRemove ==
  /\ RemoveById \/ SafeRemoveById
  /\ UNCHANGED <<gestureVars, viewer, viewerCall, timers, interactor, handlerCall, anInput, inputTrail, initCall, prop, stamped, propCall, view, viewCall>>

SpecRemove == InitRemove /\ [][NextRemove]_vars

\* getInitialValues called with any two arguments.
InitInitialValues ==
  /\ NoGestures
  /\ NoViewer
  /\ NoInteractor
  /\ NoInput
  /\ NoArray
  /\ NoProperty
  /\ NoView
  /\ \E defaults \in Arguments, data \in Arguments : initCall = Pending(defaults, data)

NextInitialValues ==
  /\ GetInitialValues
  /\ UNCHANGED <<gestureVars, viewer, viewerCall, timers, interactor, handlerCall, anInput, inputTrail, array, utilCall, prop, stamped, propCall, view, viewCall>>

SpecInitialValues == InitInitialValues /\ [][NextInitialValues]_vars

\* One object, with or without an own property id, on which an id is
\* stamped and whose id is assigned, redefined and deleted.
InitProperty ==
  /\ NoGestures
  /\ NoViewer
  /\ NoInteractor
  /\ NoInput
  /\ NoArray
  /\ initCall = NoInitCall
  /\ prop \in Properties
  /\ stamped = NoStamp
  /\ propCall = NoPropCall
  /\ NoView

NextProperty ==
  /\ Stamp \/ Assign \/ Redefine \/ Delete \/ MakeImmutable
  /\ UNCHANGED <<gestureVars, viewer, viewerCall, timers, interactor, handlerCall, anInput, inputTrail, array, utilCall, initCall, view, viewCall>>

SpecProperty == InitProperty /\ [][NextProperty]_vars

\* One ServerViewSpace constructed inside its bounds, then moved and rescaled.
InitView ==
  /\ NoGestures
  /\ NoViewer
  /\ NoInteractor
  /\ NoInput
  /\ NoArray
  /\ initCall = NoInitCall
  /\ NoProperty
  /\ \E x \in 0..MaxSide, y \in 0..MaxSide, width \in Sizes, height \in Sizes,
        scale \in Scales :
       /\ view = ServerViewSpace(x, y, width, height, scale)
       /\ Positive(view.effectiveWidth)
       /\ Positive(view.effectiveHeight)
       /\ Inside(view)
  /\ viewCall = NoViewCall

NextView ==
  /\ Rescale \/ MoveTo \/ MoveBy
  /\ UNCHANGED <<gestureVars, viewer, viewerCall, timers, interactor, handlerCall, anInput, inputTrail, array, utilCall, initCall,
                 prop, stamped, propCall>>

SpecView == InitView /\ [][NextView]_vars

\* One Interactor constructed with any handlers, then sent gesture events.
InitInteractor ==
  /\ NoGestures
  /\ NoViewer
  /\ NoInput
  /\ NoArray
  /\ initCall = NoInitCall
  /\ NoProperty
  /\ NoView
  /\ \E handlers \in HandlerArguments, heap \in 0..MaxHeap :
       interactor = Unconstructed(handlers, heap)
  /\ handlerCall = NoHandlerCall

NextInteractor ==
  /\ Construct \/ Emit \/ Wheel
  /\ UNCHANGED <<gestureVars, viewer, viewerCall, timers, anInput, inputTrail, array, utilCall, initCall,
                 prop, stamped, propCall, view, viewCall>>

SpecInteractor == InitInteractor /\ [][NextInteractor]_vars

\* One ClientViewer receiving Hammer events and calls of run.
InitViewer ==
  /\ NoGestures
  /\ NoInput
  /\ NoArray
  /\ initCall = NoInitCall
  /\ NoProperty
  /\ NoView
  /\ NoInteractor
  /\ \E x \in 0..1, scale \in {1, 2},
        rotation \in {"ROTATE_0", "ROTATE_90", "ROTATE_180", "ROTATE_270"} :
       viewer = ClientViewer(x, 1 - x, scale, rotation)
  /\ viewerCall = NoViewerCall
  /\ timers = NoTimers

NextViewer ==
  /\ \/ Drag \/ DragStart \/ DragEnd \/ ViewerTap
     \/ TransformStart \/ Transform \/ TransformEnd \/ Run
  /\ UNCHANGED <<gestureVars, anInput, inputTrail, array, utilCall, initCall,
                 prop, stamped, propCall, view, viewCall, interactor, handlerCall>>

SpecViewer == InitViewer /\ [][NextViewer]_vars

\* One ClientViewer after setup with viewers of distinct ids other than its
\* own; viewers are then updated and removed.
InitViewers ==
  /\ NoGestures
  /\ NoInput
  /\ NoArray
  /\ initCall = NoInitCall
  /\ NoProperty
  /\ NoView
  /\ NoInteractor
  /\ \E id \in ViewerIds :
       \E viewers \in DistinctInfos(ViewerIds \ {id}) :
         viewer = setup(ClientViewer(0, 0, 1, "ROTATE_0"), [id |-> id, viewers |-> viewers])
  /\ viewerCall = NoViewerCall
  /\ timers = NoTimers

NextViewers ==
  /\ UpdateViewer \/ RemoveViewer
  /\ UNCHANGED <<gestureVars, anInput, inputTrail, array, utilCall, initCall,
                 prop, stamped, propCall, view, viewCall, interactor, handlerCall>>

SpecViewers == InitViewers /\ [][NextViewers]_vars

\* findLast about to be called with any array, callback and fromIndex.
InitFind ==
  /\ NoGestures
  /\ NoViewer
  /\ NoInteractor
  /\ NoInput
  /\ array \in IdArrays
  /\ \E callback \in Callbacks, fromIndex \in FromIndexes :
       utilCall = PendingFind(callback, fromIndex)
  /\ initCall = NoInitCall
  /\ NoProperty
  /\ NoView

NextFind ==
  /\ FindLast
  /\ UNCHANGED <<gestureVars, viewer, viewerCall, timers, interactor, handlerCall,
                 anInput, inputTrail, initCall, prop, stamped, propCall, view, viewCall>>

SpecFind == InitFind /\ [][NextFind]_vars

\* The Rotate built by Interactor.rotater.
NextRotate == RotateMove

SpecRotate == InitRun /\ [][NextRotate]_vars

\* -------------------------------------------------------------------- claims

RefreshHooks == {"start", "end", "cancel"}

\* The average centroid distance of a non-empty active list.
DistanceOf(state) == averageDistanceTo(activePoints(state))

\* The latest call was hook h with at least minInputs (and at least one) contacts.
Enough(c) == Len(c.argIn) >= pinch[c.callee].minInputs /\ Len(c.argIn) >= 1

\* The callee's minInputs is a positive count.
PositiveMinimum(c) == pinch[c.callee].minInputs >= 1

\* C1: a move call whose state has at least minInputs active contacts returns
\* {distance, midpoint, change}: midpoint is the centroid of the active points,
\* distance their average distance from it, and change is distance divided by
\* the previous distance stored when the call was made.
C1_MoveEmitsRatio ==
  (call.hook = "move" /\ Enough(call)) =>
    /\ call.ret.kind = "data"
    /\ call.ret.midpoint = centroid(call.argIn)
    /\ call.ret.distance = DistanceOf(call.argIn)
    /\ call.ret.change = Div(call.ret.distance, call.before)

C1_Witness ==
  /\ call.hook = "move" /\ Enough(call)
  /\ IsNonZero(call.before)
  /\ call.ret.kind = "data"
  /\ IsFinite(call.ret.change) /\ call.ret.change \notin {Zero, One}

\* C2: over a run of consecutive recognized moves with no start, end or
\* cancel in between and all distances nonzero, the product of the emitted
\* changes is the last distance divided by the distance stored before the
\* first move of the run.
C2_ChangesCompose ==
  run.len >= 1 => run.product = Div(call.ret.distance, run.base)

C2_Witness ==
  /\ run.len = 2
  /\ call.ret.change \notin {One, run.product}
  /\ run.product # One

\* C3: a move call made while the stored previous distance is 0 returns null.
C3_ZeroPreviousReturnsNull ==
  (call.hook = "move" /\ PositiveMinimum(call) /\ call.before = Zero)
    => call.ret.kind = "null"

\* C4: a move call in which every active contact lies on the centroid (the
\* average distance is 0) returns null.
C4_ZeroDistanceReturnsNull ==
  (/\ call.hook = "move" /\ PositiveMinimum(call)
   /\ call.before # Zero
   /\ Len(call.argIn) >= 1 /\ DistanceOf(call.argIn) = Zero)
    => call.ret.kind = "null"

\* A call that met an edge case: too few contacts, or coincident contacts.
EdgeCase(c) ==
  /\ c.hook \in RefreshHooks \cup {"move"}
  /\ Len(c.argIn) >= 1
  /\ (Len(c.argIn) < pinch[c.callee].minInputs \/ DistanceOf(c.argIn) = Zero)

\* C5: a move with at least minInputs contacts and a nonzero distance that
\* follows an edge-case call (here a move that found a finite nonzero
\* previous distance) emits a finite change.
C5_EdgeCaseKeepsMemoryUsable ==
  [][(/\ EdgeCase(call) /\ PositiveMinimum(call)
      /\ call.hook = "move" /\ IsNonZero(call.before)
      /\ call'.hook = "move" /\ call'.callee = call.callee
      /\ Len(call'.argIn) >= pinch[call.callee].minInputs
      /\ Len(call'.argIn) >= 1
      /\ DistanceOf(call'.argIn) # Zero)
     => (call'.ret.kind = "data" /\ IsFinite(call'.ret.change))]_vars

\* The minimum a Pinch is said to have: 2 by default, or the configured one.
StatedMinimum(opt) == IF opt.given THEN opt.v ELSE DEFAULT_MIN_INPUTS

\* C6: a move call with fewer active contacts than the minimum, the empty
\* active list included, returns null, does not throw and stores nothing.
C6_TooFewContactsReturnsNull ==
  (call.hook = "move" /\ Len(call.argIn) < StatedMinimum(options[call.callee]))
    => (call.ret = Null /\ pinch[call.callee].previous = call.before)

C6_Witness ==
  /\ call.hook = "move" /\ call.argIn = <<>>
  /\ options[call.callee] = Given(MaxContacts)
  /\ call.ret = Null

C8_NonPositiveMinInputsRejected ==
  \A i \in DOMAIN options :
    (options[i].given /\ options[i].v <= 0) => pinch[i].threw

\* C9: the move of the Rotate built by Interactor.rotater returns null when
\* the number of active inputs is not exactly 2, without invoking the
\* original move (whose memory stays as it was); with exactly 2 it returns
\* what the original move returns for the same arguments.
C9_RotateOnlyWithTwo ==
  rotateCall.hook = "move" =>
    IF rotateCall.numActiveInputs = 2
      THEN rotateCall.invoked /\ rotateCall.ret = rotateCall.original
      ELSE /\ ~rotateCall.invoked
           /\ rotateCall.ret.kind = "null"
           /\ rotate = rotateCall.before

C9_Witness ==
  /\ rotateCall.hook = "move"
  /\ rotateCall.numActiveInputs = 1
  /\ rotateCall.original.kind = "data"
  /\ rotateCall.ret.kind = "null"
  /\ rotate.known

RawTypes == {"begin", "move", "end", "cancel"}

\* The step just taken handled an event of one of the types.
Handled(types) == events' = events + 1 /\ event'.type \in types

\* C12: State.active holds exactly one Input per contact identifier that has
\* begun and not ended or been cancelled, never two with the same identifier,
\* also when a begin is delivered again.
C12_OneInputPerContact ==
  /\ \A j, k \in 1..Len(active) : j # k => active[j].id # active[k].id
  /\ Len(active) = Cardinality({active[k].id : k \in 1..Len(active)})

\* C13: a move, end or cancel event for an identifier that is not in
\* State.active leaves the active list and every Input in it unchanged.
C13_UnknownContactIsNoOp ==
  [][(Handled({"move", "end", "cancel"}) /\ findIndex(active, event'.id) = 0)
       => active' = active]_vars

C13_Witness ==
  /\ event.type \in {"move", "end", "cancel"} /\ ~event.known
  /\ active # <<>>
  /\ \E k \in 1..Len(active) : active[k].current # event.position

\* C14: for a move event every Binding has its hook invoked; the callback of
\* a Binding is invoked once when its hook returned a result, which a Pinch
\* does with at least minInputs contacts, and not at all when it returned
\* null, whatever the other Bindings returned.
C14_NullSuppressesOwnCallbackOnly ==
  event.type = "move" =>
    /\ Len(trace) = Len(bindings)
    /\ \A k \in 1..Len(trace) :
         /\ trace[k].handle = bindings[k].handle
         /\ trace[k].hook = "move"
         /\ trace[k].ret.kind = "null" <=> Len(trace[k].seen) < bindings[k].gesture.minInputs
         /\ trace[k].callbacks = IF trace[k].ret.kind = "null" THEN 0 ELSE 1

C14_Witness ==
  /\ event.type = "move"
  /\ \E j, k \in 1..Len(trace) :
       /\ j < k
       /\ trace[j].ret.kind = "null" /\ trace[j].callbacks = 0
       /\ trace[k].ret.kind = "data" /\ trace[k].callbacks = 1

\* C15: for each raw event every hook reads the State as updated by the
\* event (a begun contact is in it, a moved contact is at its new position),
\* and the hooks run for all Bindings in the order of their registration.
C15_StateFirstThenRegistrationOrder ==
  [][Handled(RawTypes) =>
       /\ Len(trace') = Len(bindings)
       /\ \A k \in 1..Len(trace') :
            /\ trace'[k].hook = event'.type
            /\ \A j \in 1..(k - 1) : trace'[j].seq < trace'[k].seq
            /\ event'.type = "begin" =>
                 /\ Len(trace'[k].seen) = Len(active) + 1
                 /\ trace'[k].seen[Len(active) + 1].id = event'.id
                 /\ trace'[k].seen[Len(active) + 1].current = event'.position
            /\ (event'.type = "move" /\ findIndex(active, event'.id) # 0) =>
                 /\ trace'[k].seen[findIndex(active, event'.id)].current = event'.position
                 /\ trace'[k].seen[findIndex(active, event'.id)].previous =
                      active[findIndex(active, event'.id)].current]_vars

C15_Witness ==
  /\ event.type = "move" /\ event.known
  /\ Len(trace) >= 2
  /\ trace[1].handle > trace[2].handle
  /\ \E k \in 1..Len(trace[1].seen) :
       /\ trace[1].seen[k].id = event.id
       /\ trace[1].seen[k].current # trace[1].seen[k].previous

\* C16: the Input of an end or cancel event is in the State every hook of
\* that event reads, in its terminal phase, and it is not in State.active
\* once the event is handled.
C16_TerminalInputSeenThenDiscarded ==
  [][(Handled({"end", "cancel"}) /\ findIndex(active, event'.id) # 0) =>
       /\ Len(trace') = Len(bindings)
       /\ \A k \in 1..Len(trace') :
            /\ trace'[k].hook = event'.type
            /\ Len(trace'[k].seen) = Len(active)
            /\ trace'[k].seen[findIndex(active, event'.id)].id = event'.id
            /\ trace'[k].seen[findIndex(active, event'.id)].phase = event'.type
       /\ Len(active') = Len(active) - 1
       /\ \A k \in 1..Len(active') : active'[k].phase \notin {"end", "cancel"}]_vars

C16_Witness ==
  /\ event.type \in {"end", "cancel"} /\ event.known
  /\ Len(trace) >= 2
  /\ \A k \in 1..Len(trace) :
       \E j \in 1..Len(trace[k].seen) :
         trace[k].seen[j].id = event.id /\ trace[k].seen[j].phase = event.type
  /\ active # <<>>
  /\ \A k \in 1..Len(active) : active[k].id # event.id

\* C17: unbind removes the Binding of the handle and nothing else: the other
\* Bindings, their Gestures and their order and the State are unchanged, and
\* unbind on a handle already released changes nothing.
C17_UnbindIdempotentAndLocal ==
  [][Handled({"unbind"}) =>
       /\ active' = active
       /\ \A k \in 1..Len(bindings') : bindings'[k].handle # event'.handle
       /\ \A k \in 1..Len(bindings) :
            bindings[k].handle # event'.handle =>
              \E j \in 1..Len(bindings') : bindings'[j] = bindings[k]
       /\ \A k \in 1..Len(bindings') :
            /\ \E j \in 1..Len(bindings) : bindings'[k] = bindings[j]
            /\ \A j \in 1..(k - 1) : bindings'[j].seq < bindings'[k].seq
       /\ event'.handle \in released => bindings' = bindings]_vars

C17_Witness ==
  /\ event.type = "unbind" /\ event.again
  /\ bindings # <<>>
  /\ active # <<>>

\* C18: at the end of a contact handlers.tap is called, once and with the
\* release position, exactly when one contact is involved, the release
\* position is within 4 pixels of the initial position and the contact ended
\* within the time window; a contact 10 pixels away, or an end with more
\* contacts involved, makes no call.
C18_TapWithinToleranceAndWindow ==
  tap.phase = "ended" =>
    LET dx == tap.current[1] - tap.initial[1]
        dy == tap.current[2] - tap.initial[2]
    IN  /\ tapCalls = IF /\ tap.involved = 1
                         /\ dx * dx + dy * dy <= 4 * 4
                         /\ tap.elapsed <= TapWindow
                        THEN <<tap.current>>
                        ELSE <<>>
        /\ (dx * dx + dy * dy >= 10 * 10 \/ tap.involved > 1) => tapCalls = <<>>
        /\ tapCalls # <<>> <=> tap.ret.kind = "data"

C18_Witness ==
  /\ tap.phase = "ended"
  /\ tapCalls = <<tap.current>>
  /\ tap.current[1] - tap.initial[1] = 4
  /\ tap.current[2] = tap.initial[2]
  /\ tap.elapsed = TapWindow

\* C19: a Pan move with enough contacts emits the centroid and its
\* displacement since the previous call, and over a run of moves with the
\* number of contacts unchanged the displacements handed to handlers.pan sum
\* to the latest centroid minus the centroid at the start of the run.
C19_PanDisplacementsTelescope ==
  /\ (panRun.hook = "move" /\ Len(panRun.state) >= pan.minInputs) =>
       /\ panRun.ret.kind = "data"
       /\ <<panRun.ret.x, panRun.ret.y>> = mean(panRun.state)
       /\ panRun.ret.change = <<Sub(mean(panRun.state)[1], panRun.before[1]),
                                Sub(mean(panRun.state)[2], panRun.before[2])>>
       /\ Len(panCalls) = 1
  /\ (panRun.valid /\ panRun.len >= 1) =>
       panRun.total = <<Sub(mean(panRun.state)[1], panRun.base[1]),
                        Sub(mean(panRun.state)[2], panRun.base[2])>>

C19_Witness ==
  /\ panRun.valid /\ panRun.len >= 2
  /\ Len(panRun.state) = 1
  /\ panRun.base = Origin
  /\ panRun.total = <<Fin(10, 1), Fin(10, 1)>>
  /\ panRun.ret.change # panRun.total

\* C20: for a Rotate move with a result handlers.rotate is called once, with
\* the change in degrees times pi / 180 (as a multiple of pi: degrees / 180,
\* so 90 degrees is pi / 2, 0 is 0 and the sign is kept); without a result it
\* is not called.
C20_RotateHandlerGetsRadians ==
  rotateCall.hook = "move" =>
    IF rotateCall.ret.kind = "data"
      THEN /\ Len(rotateCalls) = 1
           /\ LET degrees == rotateCall.ret.distanceFromLast
                  radians == rotateCalls[1][1]
              IN  /\ radians.k = "fin"
                  /\ radians.n * 180 = degrees * radians.d
                  /\ degrees = 90 => radians = Fin(1, 2)
                  /\ degrees = 0 => radians = Zero
                  /\ degrees < 0 <=> radians.n < 0
      ELSE rotateCalls = <<>>

C20_Witness ==
  /\ rotateCall.hook = "move"
  /\ rotateCall.ret.kind = "data"
  /\ rotateCall.ret.distanceFromLast = -90
  /\ rotateCalls = <<<<Fin(-1, 2)>>>>

\* C21: after an update the Input's previous is the position it was given
\* one update before (the initial position after the first update), its
\* current and phase are those of the latest update, and its initial position
\* is the one it was constructed with.
C21_PreviousIsOneUpdateBehind ==
  [][Len(inputTrail') = Len(inputTrail) + 1 =>
       LET given == inputTrail'[Len(inputTrail')]
       IN  /\ anInput'.previous = anInput.current
           /\ anInput'.previous = inputTrail[Len(inputTrail)].position
           /\ anInput'.current = given.position
           /\ anInput'.phase = given.phase
           /\ anInput'.initial = inputTrail[1].position
           /\ anInput'.id = anInput.id]_vars

C21_Witness ==
  /\ Len(inputTrail) >= 3
  /\ anInput.previous = inputTrail[Len(inputTrail) - 1].position
  /\ anInput.previous # anInput.current
  /\ anInput.previous # anInput.initial
  /\ anInput.current # anInput.initial
  /\ anInput.phase = "cancel"

C23_SafeRemoveRejectsOtherClasses ==
  [][utilCall'.op = "safeRemoveById" =>
       IF utilCall'.item.kind = "object" /\ utilCall'.item.class = "ServerItem"
         THEN /\ ~utilCall'.threw
              /\ utilCall'.ret = (\E j \in 1..Len(array) : array[j].id = utilCall'.item.id)
         ELSE /\ utilCall'.threw
              /\ array' = array]_vars

C23_Witness ==
  /\ utilCall.op = "safeRemoveById" /\ utilCall.threw
  /\ utilCall.item.kind = "object"
  /\ \E j \in 1..Len(array) : array[j].id = utilCall.item.id /\ array[j].mark = utilCall.item.mark

\* C24: getInitialValues returns an object with exactly the keys of defaults,
\* each with the value of data when data has the key, falsy or not, and the
\* value of defaults otherwise; keys that only data has are dropped and the
\* arguments are as they were.
C24_InitialValuesFromDataThenDefaults ==
  initCall.op = "getInitialValues" =>
    LET defaults == OrEmpty(initCall.defaults)
        data == OrEmpty(initCall.data)
    IN  /\ DOMAIN initCall.ret = DOMAIN defaults
        /\ \A k \in DOMAIN data \ DOMAIN defaults : k \notin DOMAIN initCall.ret
        /\ \A k \in DOMAIN defaults \cap DOMAIN data : initCall.ret[k] = data[k]
        /\ \A k \in DOMAIN defaults \ DOMAIN data : initCall.ret[k] = defaults[k]
        /\ initCall.defaultsOut = initCall.defaults
        /\ initCall.dataOut = initCall.data

C24_Witness ==
  /\ initCall.op = "getInitialValues"
  /\ initCall.defaults.given /\ initCall.data.given
  /\ \E k \in DOMAIN initCall.defaults.obj \cap DOMAIN initCall.data.obj :
       /\ initCall.data.obj[k] = 0
       /\ initCall.defaults.obj[k] # 0
       /\ initCall.ret[k] = 0
  /\ \E k \in DOMAIN initCall.data.obj : k \notin DOMAIN initCall.defaults.obj
  /\ \E k \in DOMAIN initCall.defaults.obj : k \notin DOMAIN initCall.data.obj

\* C25: once an id is stamped the id property is non-writable and
\* non-configurable and keeps the stamped value, whatever is assigned,
\* redefined or deleted afterwards.
C25_StampedIdIsImmutable ==
  stamped.done =>
    /\ prop.exists
    /\ prop.value = stamped.value
    /\ ~prop.writable
    /\ ~prop.configurable

C25_Witness ==
  /\ stamped.done
  /\ propCall.op \in {"assign", "defineProperty", "delete"}
  /\ propCall.threw
  /\ propCall.arg # stamped.value
  /\ prop.value = stamped.value
  /\ prop.value # 0

\* C26: a ServerViewSpace inside its bounds stays inside them under moveTo,
\* moveBy and rescale, and a rescale that would leave them, or whose scale
\* is 0, negative or infinite, returns false and changes nothing.
C26_ViewStaysInsideBounds ==
  [][/\ Inside(view) => Inside(view')
     /\ viewCall'.op = "rescale" =>
          LET scale == viewCall'.x
              breaks ==
                \/ ~Positive(scale)
                \/ ~IsFinite(scale)
                \/ ~Inside([view EXCEPT !.effectiveWidth = Over(view.width, scale),
                                        !.effectiveHeight = Over(view.height, scale)])
          IN  IF breaks
                THEN ~viewCall'.ret /\ view' = view
                ELSE /\ viewCall'.ret
                     /\ view' = [view EXCEPT
                                   !.scale = scale,
                                   !.effectiveWidth = Over(view.width, scale),
                                   !.effectiveHeight = Over(view.height, scale)]]_vars

C26_Witness ==
  /\ viewCall.op = "rescale"
  /\ ~viewCall.ret
  /\ Positive(viewCall.x)
  /\ IsFinite(viewCall.x)
  /\ view.x # Zero
  /\ view.scale # One

\* C27: moveTo and moveBy set x exactly when the x destination is within
\* bounds and y exactly when the y destination is, each whatever the other.
C27_AxesMoveIndependently ==
  [][viewCall'.op \in {"moveTo", "moveBy"} =>
       /\ view'.x = IF canMoveToX(view, viewCall'.x) THEN viewCall'.x ELSE view.x
       /\ view'.y = IF canMoveToY(view, viewCall'.y) THEN viewCall'.y ELSE view.y
       /\ view' = [view EXCEPT !.x = view'.x, !.y = view'.y]]_vars

C27_Witness ==
  /\ viewCall.op = "moveBy"
  /\ view.x = viewCall.x
  /\ view.y # viewCall.y
  /\ view.x # Zero
  /\ view.y # Zero

\* C28: at every point of a sequence of start, move, end and cancel calls the
\* stored previous distance is the average centroid distance of the state
\* given to the latest call with at least minInputs contacts, and 0 when
\* there has been none.
C28_PreviousIsLatestEnoughDistance ==
  \A i \in DOMAIN pinch :
    pinch[i].minInputs >= 1 =>
      pinch[i].previous =
        IF baseline.seen THEN DistanceOf(baseline.state) ELSE Zero

C28_Witness ==
  /\ baseline.seen
  /\ call.argIn # baseline.state
  /\ call.hook \in {"end", "move"}
  /\ pinch[call.callee].minInputs >= 1
  /\ pinch[call.callee].previous = DistanceOf(baseline.state)
  /\ pinch[call.callee].previous # Zero

\* C29: a start, end or cancel call with fewer than minInputs contacts, and
\* a move call returning null for that reason, leave the stored previous
\* distance as it was.
C29_TooFewContactsKeepPrevious ==
  [][Len(call'.argIn) < pinch[call'.callee].minInputs =>
       /\ pinch'[call'.callee].previous = pinch[call'.callee].previous
       /\ call'.hook = "move" => call'.ret = Null]_vars

C29_Witness ==
  /\ call.hook \in RefreshHooks
  /\ Len(call.argIn) < pinch[call.callee].minInputs
  /\ Len(call.argIn) >= 1
  /\ pinch[call.callee].previous # Zero

\* C30: bindRegions registers exactly five Bindings, in the order Pan, Tap,
\* Pinch, Rotate, two-input Pan; no two hold the same Gesture instance, and
\* the two Pan Bindings share the callback.
C30_FiveBindingsOwnInstances ==
  interactor.phase = "bound" =>
    LET r == interactor.registered
    IN  /\ Len(r) = 5
        /\ [k \in 1..5 |-> r[k].gesture.type] = <<"Pan", "Tap", "Pinch", "Rotate", "Pan">>
        /\ r[1].gesture.value.minInputs = 1
        /\ r[5].gesture.value.minInputs = PAN_INPUTS
        /\ \A j, k \in 1..5 : j # k => r[j].gesture.instance # r[k].gesture.instance
        /\ r[1].handler = r[5].handler
        /\ \A j, k \in 1..4 : j # k => r[j].handler.ref # r[k].handler.ref
        /\ \A j, k \in 1..5 : r[j].handler.ref # r[k].gesture.instance

C30_Witness ==
  /\ interactor.phase = "bound"
  /\ handlerCall.binding = 5
  /\ handlerCall.handler = interactor.registered[1].handler.ref
  /\ handlerCall.calls[1].fn = Supplied("pan")
  /\ interactor.registered[5].gesture.instance > 9

C32_DragSilentWhileTransforming ==
  [][viewerCall'.op = "drag" =>
       IF viewerCall.inTransform
         THEN viewerCall'.emitted = <<>> /\ viewer'.mouse = viewer.mouse
         ELSE /\ Len(viewerCall'.emitted) = 1
              /\ viewerCall'.emitted[1].type = "MSG_DRAG"
              /\ viewerCall'.emitted[1].x = viewer'.mouse.x
              /\ viewerCall'.emitted[1].y = viewer'.mouse.y
              /\ viewerCall'.emitted[1].dx = viewer.mouse.x - viewer'.mouse.x
              /\ viewerCall'.emitted[1].dy = viewer.mouse.y - viewer'.mouse.y]_vars

C32_Witness ==
  /\ viewerCall.op = "drag"
  /\ viewerCall.inTransform
  /\ viewerCall.emitted = <<>>
  /\ viewer.mouse.x # 0
  /\ getMouseCoordinates(viewer, viewerCall) # viewer.mouse

\* C34: after any number of run() calls at most one draw interval timer is
\* active, the one stored by the latest run.
C34_AtMostOneDrawTimer ==
  /\ Cardinality(timers.active) <= 1
  /\ timers.active = IF viewer.animator = 0 THEN {} ELSE {viewer.animator}

C34_Witness ==
  /\ timers.made >= 2
  /\ timers.active = {viewer.animator}
  /\ viewerCall.op = "run"

\* C33: after setup, updateViewer and removeViewer keep otherViewers free of
\* two entries with one id and of the viewer's own id: an update for the own
\* id changes the viewer only, one for a known id changes that entry in
\* place, one for an unknown id appends one entry, and removeViewer of an
\* unknown id changes nothing.
C33_OtherViewersStayDistinct ==
  [][LET old == viewer.otherViewers
         new == viewer'.otherViewers
         info == viewerCall'.info
         known == {k \in 1..Len(old) : old[k].id = info.id}
     IN  /\ \A j, k \in 1..Len(new) : j # k => new[j].id # new[k].id
         /\ \A k \in 1..Len(new) : new[k].id # viewer'.id
         /\ viewer'.id = viewer.id
         /\ viewerCall'.op = "updateViewer" =>
              IF info.id = viewer.id
                THEN viewer' = [viewer EXCEPT !.x = info.x]
              ELSE IF known # {}
                THEN /\ Len(new) = Len(old)
                     /\ \A k \in 1..Len(old) :
                          new[k] = IF k \in known THEN [old[k] EXCEPT !.x = info.x]
                                   ELSE old[k]
                     /\ viewer' = [viewer EXCEPT !.otherViewers = new]
              ELSE /\ new = Append(old, [id |-> info.id, x |-> info.x])
                   /\ viewer' = [viewer EXCEPT !.otherViewers = new]
         /\ (viewerCall'.op = "removeViewer" /\ known = {}) => viewer' = viewer]_vars

C33_Witness ==
  /\ viewerCall.op = "updateViewer"
  /\ Len(viewer.otherViewers) = MaxViewers - 1
  /\ viewer.otherViewers[1].id = viewerCall.info.id
  /\ viewer.otherViewers[1].x = 1
  /\ viewer.x = 1

\* C35: findLast returns the element with the greatest index not above
\* fromIndex (by default the last index) for which the callback returns
\* true, and null when there is none, an empty array and a negative
\* fromIndex included; it does not modify the array.
C35_FindLastGreatestIndex ==
  utilCall.op = "findLast" =>
    LET from == IF utilCall.fromIndex.given THEN utilCall.fromIndex.v ELSE Len(array) - 1
        hits == {i \in 0..(Len(array) - 1) :
                   i <= from /\ array[i + 1].id = utilCall.callback.id}
    IN  /\ ~utilCall.threw
        /\ array = utilCall.before
        /\ utilCall.ret =
             IF hits = {} THEN NullElement
             ELSE At(array, CHOOSE i \in hits : \A j \in hits : j <= i)

====
